---------------------------- MODULE Spec2Model ----------------------------
(***************************************************************************)
(* A model of the health-check engine of shirasu0801/healthcheck:          *)
(*   - rateLimiter (fixed-window permit counter with a 1 s ticker),        *)
(*   - Checker.CheckURL (one attempt against one URL),                     *)
(*   - Checker.CheckURLWithRetry (bounded retries, exponential backoff),   *)
(*   - Checker.CheckURLs (one goroutine per URL behind a semaphore),       *)
(*   - the handler's range loop that drains the result channel.            *)
(*                                                                         *)
(* The specifications share the definitions:                               *)
(*   Spec       a batch of several URLs run by CheckURLs (untimed: a       *)
(*              limiter's ticker may fire between any two steps);          *)
(*   SpecRetry  one URL, more retries, every boundary outcome of the       *)
(*              network (status codes and response times around the        *)
(*              limits);                                                   *)
(*   SpecRate   one rateLimiter with its ticker and concurrent callers of  *)
(*              waitForRateLimit, in real time (unit: 100 ms);             *)
(*   SpecRateLive  the same limiter over unbounded time, scheduled fairly; *)
(*   SpecStats  CalculateStatistics on small result sets;                  *)
(*   SpecServer a batch with another request handled beside it;            *)
(*   SpecCancel SpecRetry with a context the caller may cancel;            *)
(*   SpecRedirect  one httpClient.Do against chains of redirects;          *)
(*   SpecAnyRetries  one URL with any config.Retries, negative included;   *)
(*   SpecLive   Spec with every goroutine and ticker scheduled fairly;     *)
(*   SpecConfig the handlers' updates of the shared configuration.         *)
(***************************************************************************)
EXTENDS Integers, Sequences, FiniteSets

(***************************************************************************)
(* Bounds of the model.                                                    *)
(***************************************************************************)
MaxURLs == 2          \* URLs in one batch (Spec)
MaxConcurrency == 2   \* config.Concurrency ranges over 1..MaxConcurrency
MaxRetries == 1       \* config.Retries ranges over 0..MaxRetries (Spec)
MaxRetriesSeq == 3    \* config.Retries ranges over 0..MaxRetriesSeq (SpecRetry)
MaxRate == 1          \* GlobalRate and DomainRate range over 1..MaxRate (Spec)
MaxLatencyUnits == 2  \* config.MaxLatency ranges over 1..MaxLatencyUnits
MaxCallers == 3       \* concurrent callers of waitForRateLimit (SpecRate)
MaxLimit == 2         \* the limiter's limit ranges over -1..MaxLimit (SpecRate)
MaxTime == 12         \* horizon of the clock of SpecRate, in 100 ms units

(***************************************************************************)
(* Program constants.  Time in SpecRate is counted in units of 100 ms.     *)
(***************************************************************************)
Window == 10          \* time.NewTicker(time.Second)
PollSleep == 1        \* time.Sleep(100 * time.Millisecond)
InitialBackoff == 1   \* backoff := 1 * time.Second (in seconds)
StatusOKLow == 200    \* resp.StatusCode >= 200
StatusOKHigh == 300   \* resp.StatusCode < 300
RedirectLimit == 3    \* if len(via) >= 3

VARIABLES
    cfg,            \* the *config.Config the Checker holds
    urls,           \* the urls argument of CheckURLs
    env,            \* the outcomes the network can produce in this run
    limiters,       \* the heap of rateLimiter objects; limiters[1] is globalRate
    domainRate,     \* Checker.domainRate: hostname -> index into limiters
    pcMain,         \* position of the CheckURLs goroutine
    spawned,        \* URLs the for-range loop of CheckURLs has dispatched
    wg,             \* sync.WaitGroup counter
    semaphore,      \* number of elements in the semaphore channel
    completed,      \* the shared completed counter
    completedMutex, \* completedMutex: 0 or the task that holds it
    resultChan,     \* contents of resultChan
    resultClosed,   \* number of close(resultChan) executed
    progressChan,   \* contents of progressChan (the handlers never read it)
    progressClosed, \* number of close(progressChan) executed
    results,        \* the handler's results slice
    panicked,       \* a send on a closed channel or a double close happened
    pc,             \* position of each task goroutine
    attempt,        \* CheckURLWithRetry: loop variable attempt
    backoff,        \* CheckURLWithRetry: backoff, in seconds
    result,         \* CheckURLWithRetry: result (<<>> is nil)
    domainRL,       \* CheckURL: domainRL (index into limiters, 0 before the call)
    events,         \* history of each task: attempts and backoff sleeps
    net,            \* history of each task: permits, limiters created, DNS and HTTP calls
    lastCall,       \* the CheckResult of the latest CheckURL call of each task and its outcome
    now,            \* SpecRate: the clock
    tickIn,         \* SpecRate: time to the ticker's next tick
    tickPending,    \* SpecRate: a tick waits in ticker.C (capacity 1)
    cpc,            \* SpecRate: position of each caller of waitForRateLimit
    sleepLeft,      \* SpecRate: remaining time of a caller's time.Sleep
    firstCallAt,    \* SpecRate: when the first caller entered waitForRateLimit (-1: none yet)
    together,       \* SpecRate: every caller so far entered at the same instant
    grants,         \* SpecRate: when allow() returned true, and after how many resets
    resets,         \* SpecRate: resets of the counter so far
    prompt,         \* SpecRate: no goroutine that could run was kept waiting so far
    statResults,    \* SpecStats: the results argument of CalculateStatistics
    totalDuration,  \* SpecStats: the totalDuration argument of CalculateStatistics
    statistics,     \* SpecStats: the *Statistics returned (<<>> before the call)
    semaphoreCap,   \* capacity of the semaphore channel CheckURLs made
    startCfg,       \* SpecServer: the configuration when the batch was started
    requests,       \* SpecServer: other requests handled since the batch was started
    ctxDone,        \* SpecCancel: the ctx given to CheckURLs has been cancelled
    eventsAtCancel, \* SpecCancel: how many events each task had when ctx was cancelled
    chain,          \* SpecRedirect: what the servers answer: redirects, then a final reply
    via,            \* SpecRedirect: the requests httpClient.Do has made
    doReturn,       \* SpecRedirect: what httpClient.Do returned (<<>> before it returns)
    checked,        \* SpecRedirect: the CheckResult CheckURL returned (<<>> before)
    sChecker,       \* SpecServer: the Checker in s.checker once another request replaced the batch's (<<>> before)
    otherGrants,    \* SpecServer: global permits the Checker in sChecker has granted
    lastRequest,    \* SpecServer: how the latest other request ended
    config,         \* SpecConfig: the fields of s.config the handlers write
    hpc,            \* SpecConfig: position of each handler goroutine
    parsed,         \* SpecConfig: the value the latest fmt.Sscanf of a handler stored
    loaded,         \* SpecConfig: the s.config.Timeout each handler has read for MaxLatency
    overlapped,     \* SpecConfig: two handlers have run at the same time so far
    wrapped         \* SpecConfig: a product time.Duration(t) * time.Second has wrapped so far

batchVars == <<pcMain, spawned, wg, semaphore, completed, completedMutex,
               resultChan, resultClosed, progressChan, progressClosed,
               results, panicked>>
taskVars == <<pc, attempt, backoff, result, domainRL, events, net, lastCall>>
checkerVars == <<limiters, domainRate>>
rateVars == <<now, tickIn, tickPending, cpc, sleepLeft, firstCallAt, together, grants,
              resets, prompt>>
ctxVars == <<ctxDone, eventsAtCancel>>
clientVars == <<chain, via, doReturn, checked>>
serverVars == <<sChecker, otherGrants, lastRequest>>
handlerVars == <<config, hpc, parsed, loaded, overlapped, wrapped>>
\* The variables no goroutine of a batch and no rate limiter writes.
constVars == <<cfg, urls, env, statResults, totalDuration, statistics,
               semaphoreCap, startCfg, handlerVars, requests, ctxVars,
               clientVars, serverVars>>
vars == <<constVars, checkerVars, batchVars, taskVars, rateVars>>


(***************************************************************************)
(* URLs.  url.Parse and URL.Hostname are modelled on a pool of four URLs:  *)
(* two on host a.example (one with a port), one on b.example, and one that *)
(* passes the handler's http:// prefix filter but does not parse.          *)
(***************************************************************************)
URLPool == {"http://a.example/", "http://a.example:8080/", "http://b.example/",
            "http://[::1"}

Parse(u) ==
    CASE u = "http://a.example/"      -> [err |-> FALSE, host |-> "a.example", port |-> ""]
      [] u = "http://a.example:8080/" -> [err |-> FALSE, host |-> "a.example", port |-> "8080"]
      [] u = "http://b.example/"      -> [err |-> FALSE, host |-> "b.example", port |-> ""]
      [] OTHER                        -> [err |-> TRUE,  host |-> "", port |-> ""]

Hostname(u) == Parse(u).host

(***************************************************************************)
(* rateLimiter.                                                            *)
(***************************************************************************)
newRateLimiter(limit) == [limit |-> limit, count |-> 0]

\* A reset that carries the unused permits of the window over.
resetCounterCarryOver(rl) == [rl EXCEPT !.count = @ - rl.limit]

\* rl.count = 0
resetCounter(rl) == [rl EXCEPT !.count = 0]

\* allow() that counts the calls it refuses as well.
allowCountingRefusals(rl) ==
    IF rl.count < rl.limit
    THEN [ok |-> TRUE, rl |-> [rl EXCEPT !.count = @ + 1]]
    ELSE [ok |-> FALSE, rl |-> [rl EXCEPT !.count = @ + 1]]

\* allow() that grants without counting.
allowWithoutCounting(rl) ==
    IF rl.count < rl.limit
    THEN [ok |-> TRUE, rl |-> rl]
    ELSE [ok |-> FALSE, rl |-> rl]

\* allow() with an off-by-one comparison.
allowOffByOne(rl) ==
    IF rl.count <= rl.limit
    THEN [ok |-> TRUE, rl |-> [rl EXCEPT !.count = @ + 1]]
    ELSE [ok |-> FALSE, rl |-> rl]

\* allow(): the value returned and the limiter afterwards (the body runs
\* under rl.mutex, so it is one step).
allow(rl) ==
    IF rl.count < rl.limit
    THEN [ok |-> TRUE, rl |-> [rl EXCEPT !.count = @ + 1]]
    ELSE [ok |-> FALSE, rl |-> rl]

(***************************************************************************)
(* One attempt's network outcome, as CheckURL sees it:                     *)
(*   dns     duration of net.LookupHost                                    *)
(*   reqErr  http.NewRequestWithContext returned an error                  *)
(*   err     httpClient.Do returned an error                               *)
(*   status  resp.StatusCode (when err is FALSE)                           *)
(*   rt      responseTime = time.Since(startTime)                          *)
(***************************************************************************)
Outcome(dns, reqErr, err, status, rt) ==
    [dns |-> dns, reqErr |-> reqErr, err |-> err, status |-> status, rt |-> rt]

Statuses == {StatusOKLow - 1, StatusOKLow, StatusOKHigh - 1, StatusOKHigh}

FullOutcomes(ml) ==
    {Outcome(d, TRUE, FALSE, 0, 0) : d \in {0, 1}}
    \cup {Outcome(d, FALSE, TRUE, 0, rt) : d \in {0, 1}, rt \in {ml - 1, ml, ml + 1}}
    \cup {Outcome(d, FALSE, FALSE, s, rt) :
              d \in {0, 1}, s \in Statuses, rt \in {ml - 1, ml, ml + 1}}

BatchOutcomes(ml) ==
    { Outcome(0, FALSE, TRUE, 0, ml),
      Outcome(1, FALSE, FALSE, StatusOKLow, ml),
      Outcome(0, FALSE, FALSE, StatusOKHigh, ml - 1) }

\* A request made with a context that ignores the caller's.
DeliverableIgnoringContext(e, done) == e

\* The outcomes an attempt can have: the request is made with reqCtx, a
\* child of the caller's ctx, so once ctx is done httpClient.Do returns an
\* error (net.LookupHost and http.NewRequestWithContext do not look at it).
Deliverable(e, done) == IF done THEN {o \in e : o.reqErr \/ o.err} ELSE e

\* result := &CheckResult{URL: targetURL, Timestamp: time.Now(), Success: false}
NewResult(u) ==
    [URL |-> u, StatusCode |-> 0, ResponseTime |-> 0, Latency |-> 0,
     Error |-> "", Success |-> FALSE]

\* The url.Parse error branch without result.Error = "invalid_url".
InvalidURLResultWithoutKind(u) == NewResult(u)

\* The result of CheckURL when url.Parse fails.
InvalidURLResult(u) == [NewResult(u) EXCEPT !.Error = "invalid_url"]

\* The success test with the upper bound included.
IsSuccessStatusInclusive(s) == s >= StatusOKLow /\ s <= StatusOKHigh

\* result.Success = resp.StatusCode >= 200 && resp.StatusCode < 300
IsSuccessStatus(s) == s >= StatusOKLow /\ s < StatusOKHigh

\* The classification without the check of responseTime against MaxLatency.
ClassifyNoLatencyCheck(u, o, ml) ==
    IF o.reqErr THEN [NewResult(u) EXCEPT !.Error = "request_error"]
    ELSE IF o.err
    THEN [NewResult(u) EXCEPT !.Latency = o.dns + o.rt, !.Error = "request_failed"]
    ELSE [NewResult(u) EXCEPT !.Latency = o.dns + o.rt,
                               !.StatusCode = o.status,
                               !.ResponseTime = o.rt,
                               !.Success = IsSuccessStatus(o.status),
                               !.Error = IF IsSuccessStatus(o.status) THEN "" ELSE "http_error"]

\* The classification with responseTime > MaxLatency in the error branch.
ClassifyErrStrictlyLate(u, o, ml) ==
    IF o.reqErr THEN [NewResult(u) EXCEPT !.Error = "request_error"]
    ELSE IF o.err
    THEN [NewResult(u) EXCEPT !.Latency = o.dns + o.rt,
                               !.Error = IF o.rt > ml THEN "timeout" ELSE "request_failed"]
    ELSE IF o.rt > ml
    THEN [NewResult(u) EXCEPT !.Latency = o.dns + o.rt,
                               !.StatusCode = o.status,
                               !.ResponseTime = o.rt,
                               !.Error = "timeout"]
    ELSE [NewResult(u) EXCEPT !.Latency = o.dns + o.rt,
                               !.StatusCode = o.status,
                               !.ResponseTime = o.rt,
                               !.Success = IsSuccessStatus(o.status),
                               !.Error = IF IsSuccessStatus(o.status) THEN "" ELSE "http_error"]

\* The classification whose late-reply branch records nothing of the reply.
ClassifyLateWithoutReply(u, o, ml) ==
    IF o.reqErr THEN [NewResult(u) EXCEPT !.Error = "request_error"]
    ELSE IF o.err
    THEN [NewResult(u) EXCEPT !.Latency = o.dns + o.rt,
                               !.Error = IF o.rt >= ml THEN "timeout" ELSE "request_failed"]
    ELSE IF o.rt > ml
    THEN [NewResult(u) EXCEPT !.Latency = o.dns + o.rt,
                               !.Error = "timeout"]
    ELSE [NewResult(u) EXCEPT !.Latency = o.dns + o.rt,
                               !.StatusCode = o.status,
                               !.ResponseTime = o.rt,
                               !.Success = IsSuccessStatus(o.status),
                               !.Error = IF IsSuccessStatus(o.status) THEN "" ELSE "http_error"]

\* CheckURL from the DNS lookup to its return, for outcome o.
Classify(u, o, ml) ==
    IF o.reqErr THEN [NewResult(u) EXCEPT !.Error = "request_error"]
    ELSE IF o.err
    THEN [NewResult(u) EXCEPT !.Latency = o.dns + o.rt,
                               !.Error = IF o.rt >= ml THEN "timeout" ELSE "request_failed"]
    ELSE IF o.rt > ml
    THEN [NewResult(u) EXCEPT !.Latency = o.dns + o.rt,
                               !.StatusCode = o.status,
                               !.ResponseTime = o.rt,
                               !.Error = "timeout"]
    ELSE [NewResult(u) EXCEPT !.Latency = o.dns + o.rt,
                               !.StatusCode = o.status,
                               !.ResponseTime = o.rt,
                               !.Success = IsSuccessStatus(o.status),
                               !.Error = IF IsSuccessStatus(o.status) THEN "" ELSE "http_error"]

(***************************************************************************)
(* CheckURLWithRetry: the loop's decisions.                                *)
(***************************************************************************)
\* The break condition, retrying every failure.
ShouldBreakOnSuccessOnly(r) == r.Success

\* if result.Success || (result.Error != "timeout" && result.Error != "request_failed") { break }
ShouldBreak(r) ==
    r.Success \/ (r.Error # "timeout" /\ r.Error # "request_failed")

\* backoff without the doubling.
NextBackoffConstant(b) == b

\* backoff *= 2
NextBackoff(b) == b * 2

\* result = ... keeping the first attempt's result.
AssignResultKeepFirst(old, new) == IF old = <<>> THEN <<new>> ELSE old

\* result = c.CheckURL(ctx, targetURL)
AssignResult(old, new) == <<new>>

\* Where the loop goes when its condition is evaluated with this attempt
\* number: the body (after a backoff sleep unless it is the first attempt)
\* or the return.
LoopHead(a, retries) ==
    IF a <= retries THEN (IF a > 0 THEN "backoff" ELSE "check") ELSE "send"

(***************************************************************************)
(* CheckURL: where it goes after url.Parse.                                *)
(***************************************************************************)
\* CheckURL without c.globalRate.waitForRateLimit().
AfterParseSkippingGlobal(u) == IF Parse(u).err THEN "return" ELSE "getDomain"

\* url.Parse's error ignored.
AfterParseIgnoringError(u) == "waitGlobal"

AfterParse(u) == IF Parse(u).err THEN "return" ELSE "waitGlobal"

(***************************************************************************)
(* CheckURLs: the guards of its blocking operations.                       *)
(***************************************************************************)
\* A semaphore one slot too large.
SemaphoreHasRoomOffByOne(len, capacity) == len <= capacity

\* semaphore <- struct{}{} can proceed
SemaphoreHasRoom(len, capacity) == len < capacity

\* CheckURLs without wg.Wait().
WaitGroupDoneNoWait(n) == TRUE

\* wg.Wait() can return
WaitGroupDone(n) == n = 0

\* completedMutex.Lock() that never blocks.
MutexFreeNoLock(m) == TRUE

\* Lock() can proceed
MutexFree(m) == m = 0

Tasks == 1 .. Len(urls)

NoTraffic == [global |-> 0, domain |-> 0, created |-> 0, dns |-> 0, http |-> 0]

AttemptEvent(r) == [ev |-> "attempt", d |-> 0, err |-> r.Error, ok |-> r.Success]
SleepEvent(d) == [ev |-> "sleep", d |-> d, err |-> "", ok |-> FALSE]

\* The states in which a task holds a semaphore slot.
HoldsSlot(p) == p \notin {"idle", "acquire", "wgdone", "done"}

\* The states in which a task is inside CheckURLWithRetry.
InCheckURLWithRetry(p) ==
    p \in {"backoff", "check", "waitGlobal", "getDomain", "waitDomain",
           "request"}


(***************************************************************************)
(* Initial states.  NewChecker has run: the global limiter exists with     *)
(* count 0 and the per-domain registry is empty.  The handler has made     *)
(* resultChan and progressChan with capacity len(urls) and started         *)
(* CheckURLs.                                                              *)
(***************************************************************************)
Configs(maxConc, maxRetries, maxRate) ==
    [Concurrency : 1 .. maxConc, Retries : 0 .. maxRetries,
     MaxLatency : {MaxLatencyUnits},
     DomainRate : 1 .. maxRate, GlobalRate : 1 .. maxRate]

URLLists(maxLen) == UNION {[1 .. n -> URLPool] : n \in 1 .. maxLen}

InitRate0 ==
    /\ now = 0
    /\ tickIn = Window
    /\ tickPending = FALSE
    /\ cpc = <<>>
    /\ sleepLeft = <<>>
    /\ firstCallAt = -1
    /\ together = TRUE
    /\ grants = <<>>
    /\ resets = 0
    /\ prompt = TRUE

InitClient0 ==
    /\ chain = <<>>
    /\ via = 0
    /\ doReturn = <<>>
    /\ checked = <<>>

InitStats0 ==
    /\ statResults = <<>>
    /\ totalDuration = 0
    /\ statistics = <<>>

InitChecker ==
    /\ limiters = <<newRateLimiter(cfg.GlobalRate)>>
    /\ domainRate = <<>>

DurationBits == 24    \* bits of time.Duration and of int in the model (64 in the build)
Second == 1000        \* time.Second in the model's unit of time.Duration
MaxHandlers == 2      \* handler goroutines running at the same time (SpecConfig)

Handlers == 1 .. MaxHandlers

\* The value a signed word of DurationBits bits holds after an operation
\* whose mathematical result is x.
Wrap(x) ==
    LET m == x % (2 ^ DurationBits)
    IN  IF m >= 2 ^ (DurationBits - 1) THEN m - 2 ^ DurationBits ELSE m

\* config.DefaultConfig: the fields the handlers write.
DefaultConfig ==
    [Timeout |-> 30 * Second, Concurrency |-> 10, Retries |-> 3,
     MaxLatency |-> 30 * Second]

\* NewServer holds DefaultConfig and no handler runs.
InitHandlers0 ==
    /\ config = DefaultConfig
    /\ hpc = [h \in Handlers |-> "idle"]
    /\ parsed = 0
    /\ loaded = [h \in Handlers |-> 0]
    /\ overlapped = FALSE
    /\ wrapped = FALSE

InitBatch ==
    /\ InitHandlers0
    /\ pcMain = "loop"
    /\ semaphoreCap = cfg.Concurrency
    /\ startCfg = cfg
    /\ ctxDone = FALSE
    /\ sChecker = <<>>
    /\ otherGrants = 0
    /\ lastRequest = "none"
    /\ eventsAtCancel = [t \in Tasks |-> 0]
    /\ requests = 0
    /\ spawned = 0
    /\ wg = 0
    /\ semaphore = 0
    /\ completed = 0
    /\ completedMutex = 0
    /\ resultChan = <<>>
    /\ resultClosed = 0
    /\ progressChan = <<>>
    /\ progressClosed = 0
    /\ results = <<>>
    /\ panicked = FALSE
    /\ pc = [t \in Tasks |-> "idle"]
    /\ attempt = [t \in Tasks |-> 0]
    /\ backoff = [t \in Tasks |-> InitialBackoff]
    /\ result = [t \in Tasks |-> <<>>]
    /\ domainRL = [t \in Tasks |-> 0]
    /\ events = [t \in Tasks |-> <<>>]
    /\ net = [t \in Tasks |-> NoTraffic]
    /\ lastCall = [t \in Tasks |-> <<>>]

Init ==
    /\ cfg \in Configs(MaxConcurrency, MaxRetries, MaxRate)
    /\ urls \in URLLists(MaxURLs)
    /\ env = BatchOutcomes(cfg.MaxLatency)
    /\ InitChecker
    /\ InitBatch
    /\ InitClient0
    /\ InitRate0
    /\ InitStats0

InitRetry ==
    /\ cfg \in Configs(1, MaxRetriesSeq, 1)
    /\ urls \in URLLists(1)
    /\ env = FullOutcomes(cfg.MaxLatency)
    /\ InitChecker
    /\ InitBatch
    /\ InitClient0
    /\ InitRate0
    /\ InitStats0

(***************************************************************************)
(* CheckURLs: the dispatching goroutine.                                   *)
(***************************************************************************)
\* for _, targetURL := range urls { wg.Add(1); go func(url string) {...}(targetURL) }
Spawn ==
    /\ pcMain = "loop"
    /\ spawned < Len(urls)
    /\ spawned' = spawned + 1
    /\ wg' = wg + 1
    /\ pc' = [pc EXCEPT ![spawned + 1] = "acquire"]
    /\ UNCHANGED <<constVars, checkerVars, rateVars, pcMain, semaphore,
                   completed, completedMutex, resultChan, resultClosed,
                   progressChan, progressClosed, results, panicked, attempt,
                   backoff, result, domainRL, events, net, lastCall>>

\* wg.Wait()
Wait ==
    /\ pcMain = "loop"
    /\ spawned = Len(urls)
    /\ WaitGroupDone(wg)
    /\ pcMain' = "closeResult"
    /\ UNCHANGED <<constVars, checkerVars, rateVars, taskVars, spawned, wg,
                   semaphore, completed, completedMutex, resultChan,
                   resultClosed, progressChan, progressClosed, results,
                   panicked>>

\* close(resultChan)
CloseResult ==
    /\ pcMain = "closeResult"
    /\ resultClosed' = resultClosed + 1
    /\ panicked' = (panicked \/ resultClosed > 0)
    /\ pcMain' = "closeProgress"
    /\ UNCHANGED <<constVars, checkerVars, rateVars, taskVars, spawned, wg,
                   semaphore, completed, completedMutex, resultChan,
                   progressChan, progressClosed, results>>

\* if progressChan != nil { close(progressChan) }
CloseProgress ==
    /\ pcMain = "closeProgress"
    /\ progressClosed' = progressClosed + 1
    /\ panicked' = (panicked \/ progressClosed > 0)
    /\ pcMain' = "done"
    /\ UNCHANGED <<constVars, checkerVars, rateVars, taskVars, spawned, wg,
                   semaphore, completed, completedMutex, resultChan,
                   resultClosed, progressChan, results>>

(***************************************************************************)
(* Handler: for result := range resultChan { results = append(...) }       *)
(***************************************************************************)
HandlerReceive ==
    /\ Len(resultChan) > 0
    /\ results' = Append(results, Head(resultChan))
    /\ resultChan' = Tail(resultChan)
    /\ UNCHANGED <<constVars, checkerVars, rateVars, taskVars, pcMain,
                   spawned, wg, semaphore, completed, completedMutex,
                   resultClosed, progressChan, progressClosed, panicked>>

(***************************************************************************)
(* A task goroutine of CheckURLs.                                          *)
(***************************************************************************)
\* semaphore <- struct{}{}, then CheckURLWithRetry is entered and its loop
\* condition evaluated for attempt 0.
Acquire(t) ==
    /\ pc[t] = "acquire"
    /\ SemaphoreHasRoom(semaphore, semaphoreCap)
    /\ semaphore' = semaphore + 1
    /\ pc' = [pc EXCEPT ![t] = LoopHead(0, cfg.Retries)]
    /\ UNCHANGED <<constVars, checkerVars, rateVars, pcMain, spawned, wg,
                   completed, completedMutex, resultChan, resultClosed,
                   progressChan, progressClosed, results, panicked, attempt,
                   backoff, result, domainRL, events, net, lastCall>>

\* time.Sleep(backoff); backoff *= 2
Backoff(t) ==
    /\ pc[t] = "backoff"
    /\ events' = [events EXCEPT ![t] = Append(@, SleepEvent(backoff[t]))]
    /\ backoff' = [backoff EXCEPT ![t] = NextBackoff(@)]
    /\ pc' = [pc EXCEPT ![t] = "check"]
    /\ UNCHANGED <<constVars, checkerVars, rateVars, batchVars, attempt,
                   result, domainRL, net, lastCall>>

\* CheckURL has returned r (classified from outcome out, <<>> when the URL
\* did not parse): the assignment to result, the break test, attempt++ and
\* the loop condition.
FinishAttempt(t, r, out) ==
    /\ result' = [result EXCEPT ![t] = AssignResult(@, r)]
    /\ lastCall' = [lastCall EXCEPT ![t] = <<[res |-> r, out |-> out]>>]
    /\ events' = [events EXCEPT ![t] = Append(@, AttemptEvent(r))]
    /\ IF ShouldBreak(r)
       THEN /\ attempt' = attempt
            /\ pc' = [pc EXCEPT ![t] = "send"]
       ELSE /\ attempt' = [attempt EXCEPT ![t] = @ + 1]
            /\ pc' = [pc EXCEPT ![t] = LoopHead(attempt[t] + 1, cfg.Retries)]

\* CheckURL up to the first rate-limit wait: url.Parse and the early return.
CheckURLParse(t) ==
    /\ pc[t] = "check"
    /\ IF AfterParse(urls[t]) = "return"
       THEN FinishAttempt(t, InvalidURLResult(urls[t]), <<>>)
       ELSE /\ pc' = [pc EXCEPT ![t] = AfterParse(urls[t])]
            /\ UNCHANGED <<attempt, result, events, lastCall>>
    /\ UNCHANGED <<constVars, checkerVars, rateVars, batchVars, backoff,
                   domainRL, net>>

\* c.globalRate.waitForRateLimit(): one iteration of its loop, a call of
\* allow() followed, when it returned false, by time.Sleep(100ms)
WaitGlobal(t) ==
    /\ pc[t] = "waitGlobal"
    /\ LET a == allow(limiters[1]) IN
        /\ limiters' = [limiters EXCEPT ![1] = a.rl]
        /\ IF a.ok
           THEN /\ pc' = [pc EXCEPT ![t] = "getDomain"]
                /\ net' = [net EXCEPT ![t].global = @ + 1]
           ELSE /\ pc' = pc
                /\ net' = net
    /\ UNCHANGED <<constVars, domainRate, rateVars, batchVars,
                   attempt, backoff, result, domainRL, events, lastCall>>

\* getDomainRateLimiter without c.rateMutex: the lookup may have run before
\* another goroutine stored its limiter, and the store then replaces it.
GetDomainRateLimiterUnlocked(t) ==
    /\ pc[t] = "getDomain"
    /\ LET domain == Hostname(urls[t]) IN
        \E found \in {domain \in DOMAIN domainRate, FALSE} :
            IF found
            THEN /\ domainRL' = [domainRL EXCEPT ![t] = domainRate[domain]]
                 /\ UNCHANGED <<limiters, domainRate, net>>
            ELSE /\ limiters' = Append(limiters, newRateLimiter(cfg.DomainRate))
                 /\ domainRate' = [d \in DOMAIN domainRate \cup {domain} |->
                                      IF d = domain THEN Len(limiters) + 1
                                      ELSE domainRate[d]]
                 /\ domainRL' = [domainRL EXCEPT ![t] = Len(limiters) + 1]
                 /\ net' = [net EXCEPT ![t].created = @ + 1]
    /\ pc' = [pc EXCEPT ![t] = "waitDomain"]
    /\ UNCHANGED <<constVars, rateVars, batchVars, attempt, backoff, result,
                   events, lastCall>>

\* getDomainRateLimiter, run under c.rateMutex: the map lookup and the
\* creation of a missing limiter
GetDomainRateLimiter(t) ==
    /\ pc[t] = "getDomain"
    /\ LET domain == Hostname(urls[t]) IN
        IF domain \in DOMAIN domainRate
        THEN /\ domainRL' = [domainRL EXCEPT ![t] = domainRate[domain]]
             /\ UNCHANGED <<limiters, domainRate, net>>
        ELSE /\ limiters' = Append(limiters, newRateLimiter(cfg.DomainRate))
             /\ domainRate' = [d \in DOMAIN domainRate \cup {domain} |->
                                  IF d = domain THEN Len(limiters) + 1
                                  ELSE domainRate[d]]
             /\ domainRL' = [domainRL EXCEPT ![t] = Len(limiters) + 1]
             /\ net' = [net EXCEPT ![t].created = @ + 1]
    /\ pc' = [pc EXCEPT ![t] = "waitDomain"]
    /\ UNCHANGED <<constVars, rateVars, batchVars, attempt, backoff, result,
                   events, lastCall>>

\* domainRL.waitForRateLimit(): one iteration of its loop
WaitDomain(t) ==
    /\ pc[t] = "waitDomain"
    /\ LET a == allow(limiters[domainRL[t]]) IN
        /\ limiters' = [limiters EXCEPT ![domainRL[t]] = a.rl]
        /\ IF a.ok
           THEN /\ pc' = [pc EXCEPT ![t] = "request"]
                /\ net' = [net EXCEPT ![t].domain = @ + 1]
           ELSE /\ pc' = pc
                /\ net' = net
    /\ UNCHANGED <<constVars, domainRate, rateVars, batchVars,
                   attempt, backoff, result, domainRL, events, lastCall>>

\* An attempt that gives its global permit back when it fails.
DoRequestRefunding(t) ==
    /\ pc[t] = "request"
    /\ \E o \in Deliverable(env, ctxDone) :
        /\ net' = [net EXCEPT ![t].dns = @ + 1,
                              ![t].http = @ + (IF o.reqErr THEN 0 ELSE 1)]
        /\ FinishAttempt(t, Classify(urls[t], o, cfg.MaxLatency), <<o>>)
        /\ limiters' = IF ~Classify(urls[t], o, cfg.MaxLatency).Success /\ limiters[1].count > 0
                       THEN [limiters EXCEPT ![1].count = @ - 1]
                       ELSE limiters
    /\ UNCHANGED <<constVars, domainRate, rateVars, batchVars, backoff,
                   domainRL>>

\* CheckURL from net.LookupHost to its return: the DNS lookup, the request
\* (unless its construction failed) and the classification of the outcome
DoRequest(t) ==
    /\ pc[t] = "request"
    /\ \E o \in Deliverable(env, ctxDone) :
        /\ net' = [net EXCEPT ![t].dns = @ + 1,
                              ![t].http = @ + (IF o.reqErr THEN 0 ELSE 1)]
        /\ FinishAttempt(t, Classify(urls[t], o, cfg.MaxLatency), <<o>>)
    /\ UNCHANGED <<constVars, checkerVars, rateVars, batchVars, backoff,
                   domainRL>>

\* A send on a result channel that holds one result less than the batch has URLs.
SendResultSmallerChannel(t) ==
    /\ pc[t] = "send"
    /\ Len(resultChan) < Len(urls) - 1
    /\ resultChan' = Append(resultChan, result[t])
    /\ panicked' = (panicked \/ resultClosed > 0)
    /\ pc' = [pc EXCEPT ![t] = "lock"]
    /\ UNCHANGED <<constVars, checkerVars, rateVars, pcMain, spawned, wg,
                   semaphore, completed, completedMutex, resultClosed,
                   progressChan, progressClosed, results, attempt, backoff,
                   result, domainRL, events, net, lastCall>>

\* A task that receives from the semaphore right after sending its result.
SendResultThenRelease(t) ==
    /\ pc[t] = "send"
    /\ Len(resultChan) < Len(urls)
    /\ resultChan' = Append(resultChan, result[t])
    /\ panicked' = (panicked \/ resultClosed > 0)
    /\ semaphore' = semaphore - 1
    /\ pc' = [pc EXCEPT ![t] = "lock"]
    /\ UNCHANGED <<constVars, checkerVars, rateVars, pcMain, spawned, wg,
                   completed, completedMutex, resultClosed,
                   progressChan, progressClosed, results, attempt, backoff,
                   result, domainRL, events, net, lastCall>>

\* A task that drops a failed result: it leaves without sending it.
SendResultUnlessFailed(t) ==
    /\ pc[t] = "send"
    /\ IF result[t][1].Success
       THEN /\ Len(resultChan) < Len(urls)
            /\ resultChan' = Append(resultChan, result[t])
            /\ panicked' = (panicked \/ resultClosed > 0)
            /\ pc' = [pc EXCEPT ![t] = "lock"]
       ELSE /\ pc' = [pc EXCEPT ![t] = "release"]
            /\ UNCHANGED <<resultChan, panicked>>
    /\ UNCHANGED <<constVars, checkerVars, rateVars, pcMain, spawned, wg,
                   semaphore, completed, completedMutex, resultClosed,
                   progressChan, progressClosed, results, attempt, backoff,
                   result, domainRL, events, net, lastCall>>

\* resultChan <- result
SendResult(t) ==
    /\ pc[t] = "send"
    /\ Len(resultChan) < Len(urls)
    /\ resultChan' = Append(resultChan, result[t])
    /\ panicked' = (panicked \/ resultClosed > 0)
    /\ pc' = [pc EXCEPT ![t] = "lock"]
    /\ UNCHANGED <<constVars, checkerVars, rateVars, pcMain, spawned, wg,
                   semaphore, completed, completedMutex, resultClosed,
                   progressChan, progressClosed, results, attempt, backoff,
                   result, domainRL, events, net, lastCall>>

\* completedMutex.Lock(); completed++
LockCompleted(t) ==
    /\ pc[t] = "lock"
    /\ MutexFree(completedMutex)
    /\ completedMutex' = t
    /\ completed' = completed + 1
    /\ pc' = [pc EXCEPT ![t] = "progress"]
    /\ UNCHANGED <<constVars, checkerVars, rateVars, pcMain, spawned, wg,
                   semaphore, resultChan, resultClosed,
                   progressChan, progressClosed, results, panicked, attempt,
                   backoff, result, domainRL, events, net, lastCall>>

\* if progressChan != nil { progressChan <- completed }; completedMutex.Unlock()
SendProgress(t) ==
    /\ pc[t] = "progress"
    /\ Len(progressChan) < Len(urls)
    /\ progressChan' = Append(progressChan, completed)
    /\ panicked' = (panicked \/ progressClosed > 0)
    /\ completedMutex' = 0
    /\ pc' = [pc EXCEPT ![t] = "release"]
    /\ UNCHANGED <<constVars, checkerVars, rateVars, pcMain, spawned, wg,
                   semaphore, completed, resultChan,
                   resultClosed, progressClosed, results, attempt, backoff,
                   result, domainRL, events, net, lastCall>>

\* defer func() { <-semaphore }()
Release(t) ==
    /\ pc[t] = "release"
    /\ semaphore' = semaphore - 1
    /\ pc' = [pc EXCEPT ![t] = "wgdone"]
    /\ UNCHANGED <<constVars, checkerVars, rateVars, pcMain, spawned, wg,
                   completed, completedMutex, resultChan, resultClosed,
                   progressChan, progressClosed, results, panicked, attempt,
                   backoff, result, domainRL, events, net, lastCall>>

\* defer wg.Done()
WgDone(t) ==
    /\ pc[t] = "wgdone"
    /\ wg' = wg - 1
    /\ pc' = [pc EXCEPT ![t] = "done"]
    /\ UNCHANGED <<constVars, checkerVars, rateVars, pcMain, spawned,
                   semaphore, completed, completedMutex, resultChan,
                   resultClosed, progressChan, progressClosed, results,
                   panicked, attempt, backoff, result, domainRL, events, net,
                   lastCall>>

(***************************************************************************)
(* resetCounter: the goroutine of limiter i receives a tick.  In Spec and  *)
(* SpecRetry the ticker is not timed: a tick may arrive between any two    *)
(* steps.                                                                  *)
(***************************************************************************)
ResetCounter(i) ==
    /\ limiters[i].count > 0
    /\ limiters' = [limiters EXCEPT ![i] = resetCounter(@)]
    /\ UNCHANGED <<constVars, domainRate, rateVars, batchVars,
                   taskVars>>

Next ==
    \/ Spawn
    \/ Wait
    \/ CloseResult
    \/ CloseProgress
    \/ HandlerReceive
    \/ \E t \in Tasks : Acquire(t)
    \/ \E t \in Tasks : Backoff(t)
    \/ \E t \in Tasks : CheckURLParse(t)
    \/ \E t \in Tasks : WaitGlobal(t)
    \/ \E t \in Tasks : GetDomainRateLimiter(t)
    \/ \E t \in Tasks : WaitDomain(t)
    \/ \E t \in Tasks : DoRequest(t)
    \/ \E t \in Tasks : SendResult(t)
    \/ \E t \in Tasks : LockCompleted(t)
    \/ \E t \in Tasks : SendProgress(t)
    \/ \E t \in Tasks : Release(t)
    \/ \E t \in Tasks : WgDone(t)
    \/ \E i \in 1 .. Len(limiters) : ResetCounter(i)

Spec == Init /\ [][Next]_vars

SpecRetry == InitRetry /\ [][Next]_vars


(***************************************************************************)
(* SpecRate: one rateLimiter in real time.  The clock counts units of      *)
(* 100 ms.  Nothing is urgent: the Go scheduler may delay any goroutine,   *)
(* time.Sleep sleeps at least its argument, and a tick waits in ticker.C   *)
(* (capacity 1, further ticks dropped) until resetCounter receives it.     *)
(***************************************************************************)
Callers == 1 .. MaxCallers

InitRate ==
    /\ cfg \in [Concurrency : {1}, Retries : {0}, MaxLatency : {MaxLatencyUnits},
                DomainRate : {1}, GlobalRate : -1 .. MaxLimit]
    /\ urls = <<>>
    /\ env = {}
    /\ InitChecker
    /\ InitBatch
    /\ InitClient0
    /\ now = 0
    /\ tickIn = Window
    /\ tickPending = FALSE
    /\ cpc = [c \in Callers |-> "idle"]
    /\ sleepLeft = [c \in Callers |-> 0]
    /\ firstCallAt = -1
    /\ together = TRUE
    /\ grants = <<>>
    /\ resets = 0
    /\ prompt = TRUE
    /\ InitStats0

\* A task reaches c.globalRate.waitForRateLimit()
RateCall(c) ==
    /\ cpc[c] = "idle"
    /\ cpc' = [cpc EXCEPT ![c] = "poll"]
    /\ firstCallAt' = IF firstCallAt = -1 THEN now ELSE firstCallAt
    /\ together' = (together /\ (firstCallAt = -1 \/ firstCallAt = now))
    /\ UNCHANGED <<constVars, checkerVars, batchVars, taskVars, now, tickIn,
                   tickPending, sleepLeft, grants, resets, prompt>>

\* waitForRateLimit that returns after one call of allow(), granted or not.
RateAllowGivingUp(c) ==
    /\ cpc[c] = "poll"
    /\ LET a == allow(limiters[1]) IN
        /\ limiters' = [limiters EXCEPT ![1] = a.rl]
        /\ cpc' = [cpc EXCEPT ![c] = "granted"]
        /\ sleepLeft' = sleepLeft
        /\ grants' = IF a.ok THEN Append(grants, [at |-> now, win |-> resets])
                     ELSE grants
    /\ UNCHANGED <<constVars, domainRate, batchVars, taskVars, now, tickIn,
                   tickPending, firstCallAt, together, resets, prompt>>

\* for !rl.allow() { time.Sleep(100 * time.Millisecond) }: the call of allow()
RateAllow(c) ==
    /\ cpc[c] = "poll"
    /\ LET a == allow(limiters[1]) IN
        /\ limiters' = [limiters EXCEPT ![1] = a.rl]
        /\ IF a.ok
           THEN /\ cpc' = [cpc EXCEPT ![c] = "granted"]
                /\ grants' = Append(grants, [at |-> now, win |-> resets])
                /\ sleepLeft' = sleepLeft
           ELSE /\ cpc' = [cpc EXCEPT ![c] = "sleep"]
                /\ sleepLeft' = [sleepLeft EXCEPT ![c] = PollSleep]
                /\ grants' = grants
    /\ UNCHANGED <<constVars, domainRate, batchVars, taskVars, now, tickIn,
                   tickPending, firstCallAt, together, resets, prompt>>

\* time.Sleep(100 * time.Millisecond) returns
RateWake(c) ==
    /\ cpc[c] = "sleep"
    /\ sleepLeft[c] = 0
    /\ cpc' = [cpc EXCEPT ![c] = "poll"]
    /\ UNCHANGED <<constVars, checkerVars, batchVars, taskVars, now, tickIn,
                   tickPending, sleepLeft, firstCallAt, together, grants,
                   resets, prompt>>

\* Some goroutine of the limiter could take a step now: a caller about to
\* call allow(), a caller whose sleep is over, or resetCounter with a tick
\* to receive.
Runnable ==
    \/ tickPending
    \/ \E c \in Callers : cpc[c] = "poll" \/ (cpc[c] = "sleep" /\ sleepLeft[c] = 0)

\* 100 ms pass; the ticker made by time.NewTicker(time.Second) sends a tick
\* every second
Tick ==
    /\ now < MaxTime
    /\ now' = now + 1
    /\ sleepLeft' = [c \in Callers |-> IF sleepLeft[c] > 0 THEN sleepLeft[c] - 1 ELSE 0]
    /\ tickIn' = IF tickIn = 1 THEN Window ELSE tickIn - 1
    /\ tickPending' = (tickPending \/ tickIn = 1)
    /\ prompt' = (prompt /\ ~Runnable)
    /\ UNCHANGED <<constVars, checkerVars, batchVars, taskVars, cpc,
                   firstCallAt, together, grants, resets>>

\* resetCounter: for range rl.ticker.C { rl.count = 0 }
RateReset ==
    /\ tickPending
    /\ tickPending' = FALSE
    /\ limiters' = [limiters EXCEPT ![1] = resetCounter(@)]
    /\ resets' = resets + 1
    /\ UNCHANGED <<constVars, domainRate, batchVars, taskVars, now, tickIn,
                   cpc, sleepLeft, firstCallAt, together, grants, prompt>>

NextRate ==
    \/ \E c \in Callers : RateCall(c)
    \/ \E c \in Callers : RateAllow(c)
    \/ \E c \in Callers : RateWake(c)
    \/ Tick
    \/ RateReset

SpecRate == InitRate /\ [][NextRate]_vars


(***************************************************************************)
(* Properties of the rate limiter (SpecRate).                              *)
(***************************************************************************)
Limit == limiters[1].limit

PermitCap == IF Limit > 0 THEN Limit ELSE 0

\* Permits granted since the latest reset of the counter.
WindowGrants == Cardinality({i \in 1 .. Len(grants) : grants[i].win = resets})

\* Permits granted in the 1-second interval that starts with grant i.
GrantsWithinASecondOf(i) ==
    Cardinality({j \in 1 .. Len(grants) :
                    grants[j].at >= grants[i].at /\ grants[j].at < grants[i].at + Window})

NumCalled == Cardinality({c \in DOMAIN cpc : cpc[c] # "idle"})

AtMostLimitInAnySlidingSecond ==
    prompt => \A i \in 1 .. Len(grants) : GrantsWithinASecondOf(i) <= PermitCap

SlotHolders == {t \in Tasks : HoldsSlot(pc[t])}

\* Tasks inside CheckURLWithRetry.
Checking == {t \in Tasks : InCheckURLWithRetry(pc[t])}

\* C2: at every moment the tasks that hold a semaphore slot, and so the
\* tasks running CheckURLWithRetry, number at most config.Concurrency; the
\* semaphore holds one element per holder, so a task that finds Concurrency
\* holders cannot pass its send until one of them has received.
C2_AtMostConcurrencyHolders ==
    /\ Cardinality(SlotHolders) <= cfg.Concurrency
    /\ Cardinality(Checking) <= cfg.Concurrency
    /\ Checking \subseteq SlotHolders
    /\ semaphore = Cardinality(SlotHolders)

\* C2 witness: every slot is held by a task inside CheckURLWithRetry while
\* another task of the batch waits to send on the semaphore.
C2_Witness ==
    /\ Cardinality(Checking) = cfg.Concurrency
    /\ \E t \in Tasks : pc[t] = "acquire"

\* The results emitted so far: those the handler has received and those
\* still in the channel.
EmittedResults == results \o resultChan

\* C3: the progress stream is 1, 2, ..., k in emission order at every
\* moment, no more than N results and N progress values are ever emitted, no
\* emitted result is nil, and when CheckURLs returns exactly N results and
\* the progress values 1 .. N have been emitted.
C3_ExactlyNResultsAndProgress ==
    /\ \A i \in 1 .. Len(progressChan) : progressChan[i] = i
    /\ Len(progressChan) <= Len(urls)
    /\ Len(EmittedResults) <= Len(urls)
    /\ \A i \in 1 .. Len(EmittedResults) : EmittedResults[i] # <<>>
    /\ pcMain = "done" =>
        /\ Len(EmittedResults) = Len(urls)
        /\ Len(progressChan) = Len(urls)

\* C3 witness: CheckURLs has returned from a batch of MaxURLs URLs, one of
\* which was retried, and the handler has received every result.
C3_Witness ==
    /\ pcMain = "done"
    /\ Len(urls) = MaxURLs
    /\ Len(results) = MaxURLs
    /\ \E t \in Tasks : Len(events[t]) > 1

\* C4: a stream is closed only when every task has finished, no send and
\* no second close ever hits a closed stream, and when CheckURLs returns
\* each stream has been closed exactly once.
C4_ClosedOnceAfterAllTasks ==
    /\ (resultClosed > 0 \/ progressClosed > 0) => \A t \in Tasks : pc[t] = "done"
    /\ ~panicked
    /\ resultClosed <= 1
    /\ progressClosed <= 1
    /\ progressClosed <= resultClosed
    /\ pcMain = "done" => (resultClosed = 1 /\ progressClosed = 1)

\* C4 witness: the result stream of a batch of MaxURLs URLs is closed, the
\* progress stream not yet.
C4_Witness ==
    /\ Len(urls) = MaxURLs
    /\ resultClosed = 1
    /\ progressClosed = 0

\* The tasks whose URL url.Parse rejects.
Unparsable == {t \in Tasks : Parse(urls[t]).err}

\* C9: a task whose URL does not parse gets invalid_url with Success false
\* from its only attempt, is never granted a permit, never creates or uses
\* a per-domain limiter, makes no DNS lookup and no HTTP request; and the
\* step in which its CheckURL runs changes no limiter and no registry.
C9_InvalidURLTouchesNothing ==
    /\ [](\A t \in Unparsable :
            /\ net[t] = NoTraffic
            /\ domainRL[t] = 0
            /\ Len(events[t]) <= 1
            /\ \A i \in 1 .. Len(events[t]) :
                  events[t][i] = [ev |-> "attempt", d |-> 0, err |-> "invalid_url", ok |-> FALSE]
            /\ result[t] # <<>> =>
                  (result[t][1].Error = "invalid_url" /\ ~result[t][1].Success
                   /\ result[t][1].StatusCode = 0))
    /\ [][\A t \in Unparsable :
            (pc[t] = "check" /\ pc'[t] # "check") =>
                (limiters' = limiters /\ domainRate' = domainRate /\ pc'[t] = "send")]_vars

\* C9 witness: in a batch with retries configured, the task of an unparsable
\* URL has returned from CheckURL while the task of another URL holds
\* permits of the global and of a per-domain limiter.
C9_Witness ==
    /\ cfg.Retries > 0
    /\ \E t \in Unparsable : result[t] # <<>>
    /\ \E t \in Tasks \ Unparsable : net[t].global > 0 /\ net[t].domain > 0
    /\ limiters[1].count > 0

(***************************************************************************)
(* Properties of CheckURL and CheckURLWithRetry (SpecRetry).               *)
(***************************************************************************)
\* The tasks whose CheckURLWithRetry has returned.
Returned == {t \in Tasks : pc[t] \in {"send", "lock", "progress", "release", "wgdone", "done"}}

\* The latest CheckURL call of task t got an HTTP reply.
GotReply(t) ==
    /\ lastCall[t] # <<>>
    /\ lastCall[t][1].out # <<>>
    /\ ~lastCall[t][1].out[1].reqErr
    /\ ~lastCall[t][1].out[1].err

\* C5: a CheckResult with Success true has a status code in [200,300) and
\* no error kind; a 2xx reply that took longer than MaxLatency is returned
\* with Success false and kind timeout.
C5_SuccessIs2xxWithinLatency ==
    \A t \in Tasks : lastCall[t] # <<>> =>
        LET r == lastCall[t][1].res IN
        /\ r.Success => (r.StatusCode >= 200 /\ r.StatusCode < 300 /\ r.Error = "")
        /\ GotReply(t) =>
             LET o == lastCall[t][1].out[1] IN
             (o.status >= 200 /\ o.status < 300 /\ o.rt > cfg.MaxLatency)
                 => (~r.Success /\ r.Error = "timeout")

\* C5 witness: CheckURL has returned for a reply with status 299 that took
\* longer than MaxLatency.
C5_Witness ==
    \E t \in Tasks :
        /\ GotReply(t)
        /\ lastCall[t][1].out[1].status = 299
        /\ lastCall[t][1].out[1].rt > cfg.MaxLatency

\* Every attempt of task t so far ended in timeout.
OnlyTimeouts(t) ==
    \A i \in 1 .. Len(events[t]) :
        events[t][i].ev = "attempt" => events[t][i].err = "timeout"

\* The i-th event of a run in which every attempt times out: attempts at the
\* odd positions, between them sleeps of 1, 2, 4, ... seconds.
TimeoutRunEvent(i) ==
    IF i % 2 = 1
    THEN [ev |-> "attempt", d |-> 0, err |-> "timeout", ok |-> FALSE]
    ELSE [ev |-> "sleep", d |-> 2 ^ ((i \div 2) - 1), err |-> "", ok |-> FALSE]

\* C6: while every attempt ends in timeout, the attempts and sleeps of
\* CheckURLWithRetry are attempt, sleep 1, attempt, sleep 2, attempt,
\* sleep 4, ...; with retries = r it returns after exactly r+1 attempts and
\* the r sleeps 1, 2, ..., 2^(r-1) between them.
C6_TimeoutsRetriedWithDoublingBackoff ==
    \A t \in Tasks : OnlyTimeouts(t) =>
        /\ \A i \in 1 .. Len(events[t]) : events[t][i] = TimeoutRunEvent(i)
        /\ Len(events[t]) <= 2 * cfg.Retries + 1
        /\ t \in Returned => Len(events[t]) = 2 * cfg.Retries + 1

\* C6 witness: with retries = MaxRetriesSeq, CheckURLWithRetry has returned
\* after every attempt timed out.
C6_Witness ==
    /\ cfg.Retries = MaxRetriesSeq
    /\ \E t \in Returned : OnlyTimeouts(t) /\ Len(events[t]) > 1

NeverRetriedKinds == {"http_error", "invalid_url", "request_error"}

\* C7: an attempt whose kind is http_error, invalid_url or request_error is
\* the last thing CheckURLWithRetry does (no sleep and no attempt follows
\* it), and when it is the first attempt the call returns after exactly one
\* attempt and no sleep.
C7_PermanentErrorsNotRetried ==
    \A t \in Tasks :
        /\ \A i \in 1 .. Len(events[t]) :
              (events[t][i].ev = "attempt" /\ events[t][i].err \in NeverRetriedKinds)
                  => (i = Len(events[t]) /\ t \in Returned)
        /\ (Len(events[t]) > 0 /\ events[t][1].err \in NeverRetriedKinds)
              => (Len(events[t]) = 1 /\ attempt[t] = 0)

\* C7 witness: with retries = MaxRetriesSeq, CheckURLWithRetry has returned
\* after a single attempt that got an http_error.
C7_Witness ==
    /\ cfg.Retries = MaxRetriesSeq
    /\ \E t \in Returned : Len(events[t]) = 1 /\ events[t][1].err = "http_error"

\* C8: no attempt and no sleep follows a successful attempt, and what
\* CheckURLWithRetry returns (and CheckURLs then sends) is the CheckResult
\* of the latest CheckURL call.
C8_StopsAtSuccessReturnsLast ==
    \A t \in Tasks :
        /\ \A i \in 1 .. Len(events[t]) :
              events[t][i].ok => (i = Len(events[t]) /\ t \in Returned)
        /\ t \in Returned =>
              /\ lastCall[t] # <<>>
              /\ result[t] = <<lastCall[t][1].res>>
              /\ events[t][Len(events[t])] =
                    [ev |-> "attempt", d |-> 0, err |-> result[t][1].Error,
                     ok |-> result[t][1].Success]

\* C8 witness: CheckURLWithRetry has returned a success that followed a
\* failed attempt and a sleep, with a retry still left.
C8_Witness ==
    \E t \in Returned :
        /\ Len(events[t]) = 3
        /\ ~events[t][1].ok
        /\ events[t][3].ok
        /\ result[t][1].Success
        /\ cfg.Retries > 1

(***************************************************************************)
(* Failure isolation in CheckURLs (Spec).                                  *)
(***************************************************************************)
\* The number of emitted results that carry URL u.
EmittedFor(u) ==
    Cardinality({i \in 1 .. Len(EmittedResults) :
                    EmittedResults[i] # <<>> /\ EmittedResults[i][1].URL = u})

\* C11: whatever the outcomes of the URLs of a batch, failures included,
\* no state short of the end of CheckURLs is stuck, a task that has
\* returned from CheckURLWithRetry carries a result for its own URL, and
\* when CheckURLs returns every task has finished and the result stream
\* has carried one result for every URL of the batch.
C11_FailuresDoNotAbortTheBatch ==
    /\ pcMain # "done" => ENABLED <<Next>>_vars
    /\ \A t \in Returned : result[t] # <<>> /\ result[t][1].URL = urls[t]
    /\ pcMain = "done" =>
        /\ \A t \in Tasks : pc[t] = "done" /\ Len(events[t]) > 0
        /\ \A t \in Tasks :
              EmittedFor(urls[t]) = Cardinality({x \in Tasks : urls[x] = urls[t]})

\* C11 witness: CheckURLs has returned from a batch in which one URL failed
\* after its retries and another one succeeded.
C11_Witness ==
    /\ pcMain = "done"
    /\ \E t \in Tasks : ~result[t][1].Success /\ Len(events[t]) > 1
    /\ \E t \in Tasks : result[t][1].Success

(***************************************************************************)
(* float64 arithmetic, as far as CalculateStatistics uses it: the quotient *)
(* of two small non-negative integers and the product of a float64 with a  *)
(* small integer, both rounded to nearest, ties to even.  A float64 is     *)
(* [m, x]: m the MantissaBits bits of its significand (first bit 1, most   *)
(* significant first) and x the exponent of the last bit, so its value is  *)
(* m * 2^x; zero has no bits.                                              *)
(***************************************************************************)
MantissaBits == 53    \* float64
Percent == 100        \* ... * 100

Float64Zero == [m |-> <<>>, x |-> 0]

\* The number of zeros that start the binary expansion of a/b (0 < a < b).
RECURSIVE LeadingZeros(_, _)
LeadingZeros(a, b) == IF 2 * a >= b THEN 0 ELSE 1 + LeadingZeros(2 * a, b)

ToBits(c, w) == [i \in 1 .. w |-> (c \div 2 ^ (w - i)) % 2]

RECURSIVE FromBits(_)
FromBits(bits) ==
    IF bits = <<>> THEN 0 ELSE 2 * FromBits(SubSeq(bits, 1, Len(bits) - 1)) + bits[Len(bits)]

\* The first n bits of the binary expansion of r/t (0 <= r < t) and the
\* remainder left after them, by long division, nine bits at a time.
RECURSIVE FracBits(_, _, _)
FracBits(r, t, n) ==
    IF n = 0 THEN [bits |-> <<>>, rem |-> r]
    ELSE LET w == IF n < 9 THEN n ELSE 9
             rest == FracBits((r * 2 ^ w) % t, t, n - w)
         IN [bits |-> ToBits((r * 2 ^ w) \div t, w) \o rest.bits, rem |-> rest.rem]

\* bits plus one, and the carry out of the first bit.
IncBits(bits) ==
    LET zeros == {i \in 1 .. Len(bits) : bits[i] = 0} IN
    IF zeros = {} THEN [bits |-> [i \in 1 .. Len(bits) |-> 0], carry |-> 1]
    ELSE LET k == CHOOSE i \in zeros : \A j \in zeros : j <= i
         IN [bits |-> [i \in 1 .. Len(bits) |->
                          IF i < k THEN bits[i] ELSE IF i = k THEN 1 ELSE 0],
             carry |-> 0]

\* Round to nearest, ties to even: bits are the kept bits, guard the first
\* bit dropped, sticky whether anything non-zero follows it.
RoundNearestEven(bits, x, guard, sticky) ==
    IF guard = 1 /\ (sticky \/ bits[Len(bits)] = 1)
    THEN LET r == IncBits(bits) IN
         IF r.carry = 1
         THEN [m |-> <<1>> \o SubSeq(r.bits, 1, Len(bits) - 1), x |-> x + 1]
         ELSE [m |-> r.bits, x |-> x]
    ELSE [m |-> bits, x |-> x]

\* The float64 nearest to a / b, for integers 0 <= a < b * 2^h.
Float64Quotient(a, b, h) ==
    IF a = 0 THEN Float64Zero
    ELSE LET d == b * 2 ^ h
             z == LeadingZeros(a, d)
             f == FracBits(a * 2 ^ z, d, MantissaBits + 1)
         IN RoundNearestEven(SubSeq(f.bits, 1, MantissaBits), h - (z + MantissaBits),
                             f.bits[MantissaBits + 1], f.rem # 0)

\* float64(a) / float64(b) for integers 0 <= a <= b, b > 0
Float64Div(a, b) == Float64Quotient(a, b, 1)

\* The bits of bits * k + carry for an integer 0 < k < 128, seven bits more
\* than bits has: long multiplication, nine bits at a time from the end.
RECURSIVE MulBits(_, _, _)
MulBits(bits, k, carry) ==
    IF bits = <<>> THEN ToBits(carry, 7)
    ELSE LET n == Len(bits)
             w == IF n < 9 THEN n ELSE 9
             v == FromBits(SubSeq(bits, n - w + 1, n)) * k + carry
         IN MulBits(SubSeq(bits, 1, n - w), k, v \div 2 ^ w) \o ToBits(v % 2 ^ w, w)

\* bits without the zeros it starts with (bits has a 1).
StripZeros(bits) ==
    LET first == CHOOSE i \in 1 .. Len(bits) :
                     bits[i] = 1 /\ \A j \in 1 .. i - 1 : bits[j] = 0
    IN SubSeq(bits, first, Len(bits))

\* f * float64(k) for an integer 2^6 <= k < 2^7
Float64Mul(f, k) ==
    IF f.m = <<>> THEN Float64Zero
    ELSE LET p == StripZeros(MulBits(f.m, k, 0))
             n == Len(p)
         IN RoundNearestEven(SubSeq(p, 1, MantissaBits), f.x + (n - MantissaBits),
                             p[MantissaBits + 1],
                             \E i \in MantissaBits + 2 .. n : p[i] = 1)

(***************************************************************************)
(* CalculateStatistics.  Durations are integers (time.Duration), in the    *)
(* unit of MaxLatencyUnits.                                                *)
(***************************************************************************)
MaxResults == 3       \* results in one call of CalculateStatistics (SpecStats)
MaxTotalDuration == 9 \* totalDuration is 0 or MaxTotalDuration (SpecStats)

\* &Statistics{}
ZeroStatistics ==
    [TotalRequests |-> 0, SuccessCount |-> 0, FailureCount |-> 0,
     SuccessRate |-> Float64Zero,
     AvgResponseTime |-> 0, MinResponseTime |-> 0, MaxResponseTime |-> 0,
     AvgLatency |-> 0, MinLatency |-> 0, MaxLatency |-> 0,
     TotalDuration |-> 0]

\* The loop's test with every result taken for a success.
IsCountedAlways(r) == TRUE

\* if result.Success { ... } else { stats.FailureCount++ }
IsCounted(r) == r.Success

\* The loop with the else branch taken for every result.
IsFailureAlways(r) == TRUE

\* ... else { stats.FailureCount++ }
IsFailure(r) == ~IsCounted(r)

RECURSIVE SumOf(_)
SumOf(ds) == IF ds = <<>> THEN 0 ELSE Head(ds) + SumOf(Tail(ds))

\* for _, rt := range ds { if rt < min { min = rt } }, from min = ds[0]
RECURSIVE MinOf(_, _)
MinOf(ds, min) ==
    IF ds = <<>> THEN min
    ELSE MinOf(Tail(ds), IF Head(ds) < min THEN Head(ds) ELSE min)

\* for _, rt := range ds { if rt > max { max = rt } }, from max = ds[0]
RECURSIVE MaxOf(_, _)
MaxOf(ds, max) ==
    IF ds = <<>> THEN max
    ELSE MaxOf(Tail(ds), IF Head(ds) > max THEN Head(ds) ELSE max)

\* The value CalculateStatistics(results, td) returns.
CalculateStatistics(rs, td) ==
    IF Len(rs) = 0 THEN ZeroStatistics
    ELSE
      LET counted == SelectSeq(rs, IsCounted)
          successResponseTimes == [i \in 1 .. Len(counted) |-> counted[i].ResponseTime]
          successLatencies == [i \in 1 .. Len(counted) |-> counted[i].Latency]
          n == Len(counted)
      IN [TotalRequests |-> Len(rs),
          SuccessCount |-> n,
          FailureCount |-> Len(SelectSeq(rs, IsFailure)),
          SuccessRate |-> Float64Mul(Float64Div(n, Len(rs)), Percent),
          AvgResponseTime |-> IF n > 0 THEN SumOf(successResponseTimes) \div n ELSE 0,
          MinResponseTime |-> IF n > 0 THEN MinOf(successResponseTimes, successResponseTimes[1]) ELSE 0,
          MaxResponseTime |-> IF n > 0 THEN MaxOf(successResponseTimes, successResponseTimes[1]) ELSE 0,
          AvgLatency |-> IF n > 0 THEN SumOf(successLatencies) \div n ELSE 0,
          MinLatency |-> IF n > 0 THEN MinOf(successLatencies, successLatencies[1]) ELSE 0,
          MaxLatency |-> IF n > 0 THEN MaxOf(successLatencies, successLatencies[1]) ELSE 0,
          TotalDuration |-> td]

\* The outcomes behind the results given to CalculateStatistics: replies
\* 200 within MaxLatency, a reply 200 after it, a reply 300, a transport
\* error.
StatOutcomes(ml) ==
    {Outcome(d, FALSE, FALSE, StatusOKLow, rt) : d \in {0, 1}, rt \in {ml - 1, ml}}
    \cup { Outcome(0, FALSE, FALSE, StatusOKLow, ml + 1),
           Outcome(0, FALSE, FALSE, StatusOKHigh, ml - 1),
           Outcome(1, FALSE, TRUE, 0, ml - 1) }

\* The CheckResults CheckURL returns for them and for an unparsable URL.
StatResults ==
    {Classify("http://a.example/", o, MaxLatencyUnits) : o \in StatOutcomes(MaxLatencyUnits)}
    \cup {InvalidURLResult("http://[::1")}

InitStats ==
    /\ cfg \in Configs(1, 0, 1)
    /\ urls = <<>>
    /\ env = {}
    /\ InitChecker
    /\ InitBatch
    /\ InitClient0
    /\ InitRate0
    /\ statResults \in UNION {[1 .. n -> StatResults] : n \in 0 .. MaxResults}
    /\ totalDuration \in {0, MaxTotalDuration}
    /\ statistics = <<>>

\* statistics := stats.CalculateStatistics(results, totalDuration)
CallCalculateStatistics ==
    /\ statistics = <<>>
    /\ statistics' = <<CalculateStatistics(statResults, totalDuration)>>
    /\ UNCHANGED <<cfg, urls, env, statResults, totalDuration, semaphoreCap,
                   startCfg, handlerVars, requests, ctxVars, clientVars, serverVars,
                   checkerVars, batchVars, taskVars, rateVars>>

NextStats == CallCalculateStatistics

SpecStats == InitStats /\ [][NextStats]_vars

(***************************************************************************)
(* Properties of CalculateStatistics (SpecStats).                          *)
(***************************************************************************)
\* The positions of the successful results.
SuccessfulAt == {i \in 1 .. Len(statResults) : statResults[i].Success}

\* C12 as stated: SuccessRate is 0 for an empty result set and otherwise
\* 100 * SuccessCount / TotalRequests exactly, here in its most favourable
\* reading: the float64 nearest to that quotient.  Violated: the code
\* divides first and multiplies by 100 afterwards, and the two roundings
\* give another float64 (for 1 success in 3 results).
C12_SuccessRateExact ==
    statistics # <<>> =>
        /\ statistics[1].TotalRequests = Len(statResults)
        /\ Len(statResults) = 0 => statistics[1].SuccessRate = Float64Zero
        /\ Len(statResults) > 0 =>
              statistics[1].SuccessRate =
                  Float64Quotient(100 * Cardinality(SuccessfulAt), Len(statResults), 7)

\* The sum of field f of the results at the positions in S.
RECURSIVE SumAt(_, _)
SumAt(S, f) ==
    IF S = {} THEN 0
    ELSE LET i == CHOOSE k \in S : TRUE IN statResults[i][f] + SumAt(S \ {i}, f)

\* avg, min and max are the truncated mean, the least and the greatest value
\* of field f over the successful results, and all zero when there is none.
TimingOverSuccesses(f, avg, min, max) ==
    LET n == Cardinality(SuccessfulAt) IN
    IF n = 0 THEN avg = 0 /\ min = 0 /\ max = 0
    ELSE /\ avg * n <= SumAt(SuccessfulAt, f)
         /\ SumAt(SuccessfulAt, f) < (avg + 1) * n
         /\ \E i \in SuccessfulAt : statResults[i][f] = min
         /\ \A i \in SuccessfulAt : statResults[i][f] >= min
         /\ \E i \in SuccessfulAt : statResults[i][f] = max
         /\ \A i \in SuccessfulAt : statResults[i][f] <= max

\* C13: the average, minimum and maximum of response time and of latency
\* are those of exactly the results with Success true, whatever timings the
\* failed results carry, and all six are zero when no result is a success.
C13_TimingOverSuccessesOnly ==
    statistics # <<>> =>
        /\ TimingOverSuccesses("ResponseTime", statistics[1].AvgResponseTime,
                               statistics[1].MinResponseTime, statistics[1].MaxResponseTime)
        /\ TimingOverSuccesses("Latency", statistics[1].AvgLatency,
                               statistics[1].MinLatency, statistics[1].MaxLatency)

\* C13 witness: statistics of two successes with different response times
\* and a 2xx reply overridden to timeout whose response time exceeds both.
C13_Witness ==
    /\ statistics # <<>>
    /\ \E i, j \in SuccessfulAt : statResults[i].ResponseTime < statResults[j].ResponseTime
    /\ \E k \in 1 .. Len(statResults) :
          /\ statResults[k].Error = "timeout"
          /\ statResults[k].StatusCode = 200
          /\ \A i \in SuccessfulAt : statResults[k].ResponseTime > statResults[i].ResponseTime

(***************************************************************************)
(* Properties of allow() (SpecRate).                                       *)
(***************************************************************************)
\* C14: the counter equals the number of permits granted since the last
\* reset, and a call of allow() returns true and adds one to the counter
\* exactly when fewer than limit permits have been granted since the last
\* reset; otherwise it returns false and leaves the counter unchanged.
C14_AllowGrantsIffBelowLimit ==
    /\ [](limiters[1].count = WindowGrants)
    /\ [][\A c \in Callers :
            (cpc[c] = "poll" /\ cpc'[c] # "poll") =>
                IF WindowGrants < Limit
                THEN /\ cpc'[c] = "granted"
                     /\ Len(grants') = Len(grants) + 1
                     /\ limiters'[1].count = limiters[1].count + 1
                ELSE /\ cpc'[c] = "sleep"
                     /\ grants' = grants
                     /\ limiters' = limiters]_vars

\* C14 witness: with limit 1, before any reset, one caller holds the permit
\* and two others were refused.
C14_Witness ==
    /\ Limit = 1
    /\ resets = 0
    /\ Len(grants) = 1
    /\ Cardinality({c \in Callers : cpc[c] = "sleep"}) = 2

\* C15: a limiter with limit <= 0 never grants a permit, however many
\* times its counter is reset: no call of allow() has returned true and the
\* counter stays 0.
C15_NonPositiveLimitNeverGrants ==
    Limit <= 0 =>
        /\ grants = <<>>
        /\ \A c \in Callers : cpc[c] # "granted"
        /\ limiters[1].count = 0

\* C15 witness: a limiter with limit 0 has refused a caller after its
\* counter was reset (the reset came at 1.0 s, the refusal later).
C15_Witness ==
    /\ Limit = 0
    /\ prompt
    /\ resets > 0
    /\ now > Window
    /\ \E c \in Callers : cpc[c] = "sleep" /\ sleepLeft[c] = PollSleep

(***************************************************************************)
(* The per-domain registry (Spec).                                         *)
(***************************************************************************)
\* The limiters created by getDomainRateLimiter so far.
CreatedLimiters == Len(limiters) - 1

\* The tasks that have received the limiter of the host of URL u.
ServedFor(u) == {t \in Tasks : domainRL[t] # 0 /\ Parse(urls[t]).host = Parse(u).host}

\* C16: the registry holds one limiter per hostname, the port not being
\* part of the name: tasks whose URLs have the same hostname receive the
\* same limiter under every interleaving, exactly one limiter has been
\* created for every registered hostname, and a registered limiter is never
\* replaced.
C16_OneLimiterPerHostname ==
    /\ [](/\ \A t \in Tasks : \A x \in ServedFor(urls[t]) :
                domainRL[x] = domainRL[t] \/ domainRL[t] = 0
          /\ \A t \in Tasks : domainRL[t] # 0 =>
                /\ Parse(urls[t]).host \in DOMAIN domainRate
                /\ domainRate[Parse(urls[t]).host] = domainRL[t]
          /\ \A d \in DOMAIN domainRate : \E t \in Tasks : Parse(urls[t]).host = d
          /\ \A d, e \in DOMAIN domainRate : domainRate[d] = domainRate[e] => d = e
          /\ \A d \in DOMAIN domainRate : domainRate[d] \in 2 .. Len(limiters)
          /\ CreatedLimiters = Cardinality(DOMAIN domainRate))
    /\ [][\A d \in DOMAIN domainRate :
            d \in DOMAIN domainRate' /\ domainRate'[d] = domainRate[d]]_vars

\* C16 witness: two tasks running at the same time for URLs of one host,
\* one of them with a port, hold the same limiter, the only one created.
C16_Witness ==
    /\ Len(urls) = 2
    /\ urls[1] # urls[2]
    /\ Parse(urls[1]).host = Parse(urls[2]).host
    /\ Parse(urls[2]).port # ""
    /\ pc[1] = "waitDomain"
    /\ pc[2] = "waitDomain"
    /\ domainRL[1] = domainRL[2]
    /\ CreatedLimiters = 1

(***************************************************************************)
(* SpecServer: a batch in flight while the server handles other requests.  *)
(* Every handler writes the one *config.Config the Server holds, and the   *)
(* Checker of the running batch holds the same pointer.                    *)
(***************************************************************************)
MaxHops == 5          \* redirects a server chain answers before its final reply (SpecRedirect)
MaxRequests == 1      \* other requests handled while the batch runs (SpecServer)

InitServer ==
    /\ cfg \in Configs(1, MaxRetries, 1)
    /\ urls \in URLLists(1)
    /\ env = BatchOutcomes(cfg.MaxLatency)
    /\ InitChecker
    /\ InitBatch
    /\ InitClient0
    /\ InitRate0
    /\ InitStats0

\* NewChecker: the limiters of the Checker it returns.
NewChecker(c) == [globalRate |-> newRateLimiter(c.GlobalRate), domainRate |-> <<>>]

\* The values a request can submit for concurrency, timeout and retries
\* (0, 0 and -1 stand for a value that is absent or does not pass the
\* handler's test) and the configuration they leave in s.config.
Submitted(c) ==
    {[c EXCEPT !.Concurrency = IF n > 0 THEN n ELSE @,
               !.MaxLatency = IF tmo > 0 THEN tmo ELSE @,
               !.Retries = IF r >= 0 THEN r ELSE @] :
        n \in 0 .. MaxConcurrency, tmo \in 0 .. MaxLatencyUnits, r \in -1 .. MaxRetries}

\* A handler whose new Checker takes over the global limiter in use.
OtherRequestReusingLimiter ==
    /\ requests < MaxRequests
    /\ requests' = requests + 1
    /\ cfg' \in Submitted(cfg)
    /\ sChecker' = <<[globalRate |-> IF sChecker = <<>> THEN limiters[1]
                                      ELSE sChecker[1].globalRate,
                      domainRate |-> <<>>]>>
    /\ otherGrants' = 0
    /\ lastRequest' = "accepted"
    /\ UNCHANGED <<urls, env, statResults, totalDuration, statistics,
                   semaphoreCap, startCfg, handlerVars, ctxVars, clientVars, checkerVars,
                   batchVars, taskVars, rateVars>>

\* handleCheck / handleAPICheck of another request (POST, with at least one
\* URL), up to the start of its batch: the submitted values are written to
\* s.config and s.checker = NewChecker(s.config).
OtherRequestUpdatesConfig ==
    /\ requests < MaxRequests
    /\ requests' = requests + 1
    /\ cfg' \in Submitted(cfg)
    /\ sChecker' = <<NewChecker(cfg')>>
    /\ otherGrants' = 0
    /\ lastRequest' = "accepted"
    /\ UNCHANGED <<urls, env, statResults, totalDuration, statistics,
                   semaphoreCap, startCfg, handlerVars, ctxVars, clientVars, checkerVars,
                   batchVars, taskVars, rateVars>>

\* handleCheck / handleAPICheck of another request that is not a POST or
\* carries no URL: it returns 405 or 400 before it touches s.config or
\* s.checker.
OtherRequestRejected ==
    /\ requests < MaxRequests
    /\ requests' = requests + 1
    /\ lastRequest' = "rejected"
    /\ UNCHANGED <<cfg, urls, env, statResults, totalDuration, statistics,
                   semaphoreCap, startCfg, handlerVars, ctxVars, clientVars, sChecker,
                   otherGrants, checkerVars, batchVars, taskVars, rateVars>>

\* A task of the other request's batch in c.globalRate.waitForRateLimit():
\* a call of allow() on the global limiter of the Checker in s.checker.
OtherBatchWaitGlobal ==
    /\ sChecker # <<>>
    /\ LET a == allow(sChecker[1].globalRate) IN
        /\ a.ok
        /\ sChecker' = <<[sChecker[1] EXCEPT !.globalRate = a.rl]>>
        /\ otherGrants' = otherGrants + 1
    /\ UNCHANGED <<cfg, urls, env, statResults, totalDuration, statistics,
                   semaphoreCap, startCfg, handlerVars, requests, ctxVars, clientVars,
                   lastRequest, checkerVars, batchVars, taskVars, rateVars>>

NextServer ==
    \/ Next
    \/ OtherRequestUpdatesConfig
    \/ OtherRequestRejected
    \/ OtherBatchWaitGlobal

SpecServer == InitServer /\ [][NextServer]_vars

\* The attempts task t has made.
AttemptsOf(t) == Cardinality({i \in 1 .. Len(events[t]) : events[t][i].ev = "attempt"})

\* C17 as stated: a request handled concurrently cannot change the values
\* the running tasks of a batch read, so a task makes at most as many
\* attempts as the Retries the batch was started with allows.  Violated:
\* the other request writes s.config.Retries, which CheckURLWithRetry reads
\* at every evaluation of its loop condition.
C17_BatchKeepsItsRetries ==
    \A t \in Tasks : AttemptsOf(t) <= startCfg.Retries + 1

(***************************************************************************)
(* The error taxonomy of CheckURL (SpecRetry).                             *)
(***************************************************************************)
ErrorKinds == {"invalid_url", "request_error", "request_failed", "timeout", "http_error"}

\* The error kinds of the attempts task t has made, in order.
KindsOf(t) == [i \in 1 .. Len(events[t]) |-> events[t][i].err]

\* C18: every CheckResult CheckURL returns is a success with an empty error
\* kind or a failure whose kind is one of the five; every call returns a
\* result (CheckURLWithRetry holds a non-nil result after every attempt).
C18_ClosedErrorTaxonomy ==
    \A t \in Tasks :
        /\ lastCall[t] # <<>> =>
              /\ \/ lastCall[t][1].res.Success /\ lastCall[t][1].res.Error = ""
                 \/ ~lastCall[t][1].res.Success /\ lastCall[t][1].res.Error \in ErrorKinds
              /\ result[t] # <<>>
        /\ \A i \in 1 .. Len(events[t]) : events[t][i].ev = "attempt" =>
              \/ events[t][i].ok /\ events[t][i].err = ""
              \/ ~events[t][i].ok /\ events[t][i].err \in ErrorKinds
        /\ (AttemptsOf(t) > 0) = (lastCall[t] # <<>>)

\* C18 witness: CheckURLWithRetry has returned a request_error after
\* attempts that ended in timeout and in request_failed.
C18_Witness ==
    \E t \in Returned :
        /\ \E i \in 1 .. Len(events[t]) : KindsOf(t)[i] = "timeout"
        /\ \E i \in 1 .. Len(events[t]) : KindsOf(t)[i] = "request_failed"
        /\ result[t][1].Error = "request_error"
        /\ ~result[t][1].Success

(***************************************************************************)
(* The order of the steps of one task of CheckURLs (Spec).                 *)
(***************************************************************************)
\* The position of a task in the body of its goroutine: 0 not started or
\* blocked on the semaphore, 1 inside CheckURLWithRetry, 2 before the send on
\* resultChan, 3 before completedMutex.Lock, 4 before the send on
\* progressChan, 5 before the deferred receive from the semaphore, 6 before
\* the deferred wg.Done, 7 finished.
StageOf(p) ==
    CASE p \in {"idle", "acquire"} -> 0
      [] InCheckURLWithRetry(p) -> 1
      [] p = "send" -> 2
      [] p = "lock" -> 3
      [] p = "progress" -> 4
      [] p = "release" -> 5
      [] p = "wgdone" -> 6
      [] p = "done" -> 7

\* The tasks that are at stage n or beyond.
Past(n) == {t \in Tasks : StageOf(pc[t]) >= n}

\* The slots given back: the sends on the semaphore that have completed
\* minus the elements the semaphore holds.
ReleasedSlots == Cardinality(Past(1)) - semaphore

\* C19 as stated: the slot is released before the completed counter is
\* incremented, so the counter never exceeds the number of slots given back.
C19_SlotReleasedBeforeIncrement == completed <= ReleasedSlots

\* C19 amended: a task acquires a slot, runs CheckURLWithRetry, sends its
\* result, increments completed and sends its new value under the mutex, and
\* only then gives its slot back (deferred) and calls wg.Done (deferred):
\* the shared variables count exactly the tasks past each of these steps,
\* and each task moves through the steps one at a time in this order.
C19_SlotReleasedAfterProgress ==
    /\ [](/\ semaphore = Cardinality(Past(1)) - Cardinality(Past(6))
          /\ Len(EmittedResults) = Cardinality(Past(3))
          /\ completed = Cardinality(Past(4))
          /\ Len(progressChan) = Cardinality(Past(5))
          /\ \A i \in 1 .. Len(progressChan) : progressChan[i] = i
          /\ wg = spawned - Cardinality(Past(7))
          /\ ReleasedSlots <= Len(progressChan))
    /\ [][\A t \in Tasks :
            \/ StageOf(pc'[t]) = StageOf(pc[t])
            \/ StageOf(pc'[t]) = StageOf(pc[t]) + 1]_vars

\* C19 witness: a task has sent its progress value and still holds the only
\* slot, while another task waits for it.
C19_Witness ==
    \E t, u \in Tasks :
        /\ pc[t] = "release"
        /\ pc[u] = "acquire"
        /\ semaphore = semaphoreCap
        /\ Len(progressChan) = 1
        /\ completed = 1
        /\ ReleasedSlots = 0

(***************************************************************************)
(* The latency CheckURL reports (SpecRetry).                               *)
(***************************************************************************)
\* The tasks whose last call of CheckURL went as far as the DNS lookup.
MeasuredDNS == {t \in Tasks : lastCall[t] # <<>> /\ lastCall[t][1].out # <<>>}

GotTransportError(t) ==
    /\ lastCall[t] # <<>>
    /\ lastCall[t][1].out # <<>>
    /\ ~lastCall[t][1].out[1].reqErr
    /\ lastCall[t][1].out[1].err

\* C21: when httpClient.Do returns an error the kind is request_failed if
\* responseTime < MaxLatency and timeout if responseTime >= MaxLatency; in
\* both cases Success is false and StatusCode is 0.
C21_TransportErrorKindByElapsedTime ==
    \A t \in Tasks : GotTransportError(t) =>
        LET r == lastCall[t][1].res
            o == lastCall[t][1].out[1] IN
        /\ o.rt < cfg.MaxLatency => r.Error = "request_failed"
        /\ o.rt >= cfg.MaxLatency => r.Error = "timeout"
        /\ ~r.Success
        /\ r.StatusCode = 0

\* C21 witness: a transport error whose responseTime is exactly MaxLatency
\* has been returned.
C21_Witness ==
    \E t \in Tasks :
        /\ GotTransportError(t)
        /\ lastCall[t][1].out[1].rt = cfg.MaxLatency
        /\ lastCall[t][1].res.Error = "timeout"

\* C22: a reply whose responseTime exceeds MaxLatency is returned with kind
\* timeout and Success false, with the reply's status code and the response
\* time recorded on the result.
C22_LateReplyIsTimeoutWithStatus ==
    \A t \in Tasks : (GotReply(t) /\ lastCall[t][1].out[1].rt > cfg.MaxLatency) =>
        LET r == lastCall[t][1].res
            o == lastCall[t][1].out[1] IN
        /\ r.Error = "timeout"
        /\ ~r.Success
        /\ r.StatusCode = o.status
        /\ r.ResponseTime = o.rt

\* C22 witness: a reply with status 300 that took longer than MaxLatency
\* has been returned.
C22_Witness ==
    \E t \in Tasks :
        /\ GotReply(t)
        /\ lastCall[t][1].out[1].rt > cfg.MaxLatency
        /\ lastCall[t][1].out[1].status = StatusOKHigh
        /\ lastCall[t][1].res.StatusCode = StatusOKHigh

\* C23: a reply received within MaxLatency is returned with kind http_error,
\* Success false and its status code when the status is outside [200,300),
\* and with Success true (and no kind) when it is inside.
C23_ReplyInTimeClassifiedByStatus ==
    \A t \in Tasks : (GotReply(t) /\ lastCall[t][1].out[1].rt <= cfg.MaxLatency) =>
        LET r == lastCall[t][1].res
            o == lastCall[t][1].out[1] IN
        /\ r.StatusCode = o.status
        /\ (o.status < 200 \/ o.status >= 300) => (r.Error = "http_error" /\ ~r.Success)
        /\ (o.status >= 200 /\ o.status < 300) => (r.Success /\ r.Error = "")

\* C23 witness: a reply with status 300 that took exactly MaxLatency has
\* been returned as an http_error.
C23_Witness ==
    \E t \in Tasks :
        /\ GotReply(t)
        /\ lastCall[t][1].out[1].rt = cfg.MaxLatency
        /\ lastCall[t][1].out[1].status = 300
        /\ lastCall[t][1].res.Error = "http_error"

(***************************************************************************)
(* The permits of one attempt of CheckURL (Spec).                          *)
(***************************************************************************)
\* C24: in every attempt on a parseable URL the global permit is granted
\* before the per-domain limiter is looked up and asked, and the DNS lookup
\* and the HTTP request are made only after both permits: a task that asks
\* for its domain permit holds one global permit more than domain permits,
\* a task about to look up the host holds as many of each, one more than
\* its lookups, and at all other times the four counts agree (the request
\* is not sent when its construction fails).
C24_GlobalThenDomainThenRequest ==
    \A t \in Tasks :
        /\ net[t].http <= net[t].dns
        /\ net[t].dns <= net[t].domain
        /\ net[t].domain <= net[t].global
        /\ net[t].global <= net[t].dns + 1
        /\ pc[t] \in {"getDomain", "waitDomain"} =>
              (net[t].global = net[t].domain + 1 /\ net[t].domain = net[t].dns)
        /\ pc[t] = "request" =>
              (net[t].global = net[t].domain /\ net[t].domain = net[t].dns + 1)
        /\ pc[t] \notin {"getDomain", "waitDomain", "request"} =>
              (net[t].global = net[t].domain /\ net[t].domain = net[t].dns)
        /\ Parse(urls[t]).err => net[t] = NoTraffic

\* C24 witness: a task in its second attempt holds its second global
\* permit and waits for its second domain permit, which the domain limiter
\* refuses until its counter is reset.
C24_Witness ==
    \E t \in Tasks :
        /\ pc[t] = "waitDomain"
        /\ net[t].global = 2
        /\ net[t].domain = 1
        /\ net[t].dns = 1
        /\ ~allow(limiters[domainRL[t]]).ok

(***************************************************************************)
(* The permits of a retry sequence (SpecRetry).                            *)
(***************************************************************************)
\* C25: every attempt of CheckURLWithRetry on a parseable URL takes exactly
\* one permit of the global limiter and one of the URL's domain limiter: a
\* call that returned after k attempts was granted k global and k domain
\* permits, each grant raised its limiter's counter by one, and no counter
\* is ever lowered except by its ticker's reset (nothing is refunded).
C25_OnePermitOfEachPerAttempt ==
    /\ [](\A t \in Tasks : ~Parse(urls[t]).err =>
            /\ net[t].global \in {AttemptsOf(t), AttemptsOf(t) + 1}
            /\ net[t].domain \in {AttemptsOf(t), AttemptsOf(t) + 1}
            /\ t \in Returned =>
                  (net[t].global = AttemptsOf(t) /\ net[t].domain = AttemptsOf(t)))
    /\ [][/\ \A t \in Tasks :
               /\ net'[t].global \in {net[t].global, net[t].global + 1}
               /\ net'[t].global = net[t].global + 1 =>
                     limiters'[1].count = limiters[1].count + 1
               /\ net'[t].domain \in {net[t].domain, net[t].domain + 1}
               /\ net'[t].domain = net[t].domain + 1 =>
                     limiters'[domainRL[t]].count = limiters[domainRL[t]].count + 1
          /\ \A i \in 1 .. Len(limiters) :
               limiters'[i].count < limiters[i].count =>
                   (limiters'[i].count = 0 /\ UNCHANGED taskVars)]_vars

\* C25 witness: CheckURLWithRetry has returned after MaxRetriesSeq + 1
\* attempts, all failed, having been granted as many permits of each limiter.
C25_Witness ==
    \E t \in Returned :
        /\ AttemptsOf(t) = MaxRetriesSeq + 1
        /\ net[t].global = MaxRetriesSeq + 1
        /\ net[t].domain = MaxRetriesSeq + 1
        /\ ~result[t][1].Success

(***************************************************************************)
(* The reset of the counter (SpecRate).                                    *)
(***************************************************************************)
\* Permits granted in window w (between reset w and reset w + 1).
GrantsIn(w) == Cardinality({i \in 1 .. Len(grants) : grants[i].win = w})

\* C26: every tick resetCounter receives sets the counter to zero whatever
\* it was and leaves the limit alone, so right after a reset exactly limit
\* permits are available; permits a window left unused are not added to
\* the next window, which grants at most limit.
C26_ResetToZeroNoCarryOver ==
    /\ [](\A w \in 0 .. resets : GrantsIn(w) <= PermitCap)
    /\ [][resets' = resets + 1 =>
            /\ limiters'[1].count = 0
            /\ limiters'[1].limit = limiters[1].limit
            /\ limiters'[1].limit - limiters'[1].count = Limit]_vars

\* C26 witness: a limiter with limit MaxLimit granted nothing in its first
\* window and has granted exactly MaxLimit permits since the reset, with a
\* further caller refused.
C26_Witness ==
    /\ Limit = MaxLimit
    /\ resets = 1
    /\ GrantsIn(0) = 0
    /\ GrantsIn(1) = MaxLimit
    /\ \E c \in DOMAIN cpc : cpc[c] = "sleep"

(***************************************************************************)
(* SpecRateLive: the rateLimiter of SpecRate for an unbounded time.  The   *)
(* clock and the count of resets, which only record history, stand still,  *)
(* so that the limiter's states are finitely many; the ticker, the sleeps  *)
(* and the counter behave as in SpecRate.  Fairness: time passes, and the  *)
(* Go scheduler eventually runs every goroutine that stays runnable (the   *)
(* callers and resetCounter).  A caller need not ever call.                *)
(***************************************************************************)
InitRateLive == InitRate /\ cfg.GlobalRate >= 1

\* 100 ms pass
TickLive ==
    /\ sleepLeft' = [c \in Callers |-> IF sleepLeft[c] > 0 THEN sleepLeft[c] - 1 ELSE 0]
    /\ tickIn' = IF tickIn = 1 THEN Window ELSE tickIn - 1
    /\ tickPending' = (tickPending \/ tickIn = 1)
    /\ UNCHANGED <<constVars, checkerVars, batchVars, taskVars, now, cpc,
                   firstCallAt, together, grants, resets, prompt>>

\* resetCounter: for range rl.ticker.C { rl.count = 0 }
RateResetLive ==
    /\ tickPending
    /\ tickPending' = FALSE
    /\ limiters' = [limiters EXCEPT ![1] = resetCounter(@)]
    /\ UNCHANGED <<constVars, domainRate, batchVars, taskVars, now, tickIn,
                   cpc, sleepLeft, firstCallAt, together, grants, resets,
                   prompt>>

NextRateLive ==
    \/ \E c \in Callers : RateCall(c)
    \/ \E c \in Callers : RateAllow(c)
    \/ \E c \in Callers : RateWake(c)
    \/ TickLive
    \/ RateResetLive

SpecRateLive ==
    /\ InitRateLive
    /\ [][NextRateLive]_vars
    /\ WF_vars(TickLive)
    /\ WF_vars(RateResetLive)
    /\ \A c \in Callers : WF_vars(RateAllow(c)) /\ WF_vars(RateWake(c))

\* The callers whose waitForRateLimit has returned.
Granted == {c \in DOMAIN cpc : cpc[c] = "granted"}

\* C27: waitForRateLimit returns only from a call of allow() of its own
\* that granted a permit (and raised the counter by one); a refused call is
\* followed by a sleep of 100 ms and another call; and with limit >= 1, a
\* ticker that keeps ticking and finitely many callers, every caller of
\* waitForRateLimit is eventually granted its permit.
C27_WaitReturnsWithPermitEventually ==
    /\ [](Cardinality(Granted) = Len(grants))
    /\ [][\A c \in Callers :
            /\ (cpc[c] # "granted" /\ cpc'[c] = "granted") =>
                  /\ cpc[c] = "poll"
                  /\ limiters[1].count < limiters[1].limit
                  /\ limiters'[1].count = limiters[1].count + 1
            /\ (cpc[c] = "poll" /\ cpc'[c] # "poll" /\ cpc'[c] # "granted") =>
                  /\ cpc'[c] = "sleep"
                  /\ sleepLeft'[c] = PollSleep
                  /\ limiters' = limiters
            /\ (cpc[c] = "sleep" /\ cpc'[c] # "sleep") =>
                  (cpc'[c] = "poll" /\ sleepLeft[c] = 0)]_vars
    /\ \A c \in Callers : (cpc[c] \in {"poll", "sleep"}) ~> (cpc[c] = "granted")

\* C27 witness: with limit 1, every one of the callers has been granted a
\* permit.
C27_Witness ==
    /\ Limit = 1
    /\ Granted = Callers
    /\ Len(grants) = MaxCallers

(***************************************************************************)
(* SpecCancel: CheckURLWithRetry on one URL, called with a context that    *)
(* its caller may cancel at any moment.                                    *)
(***************************************************************************)
\* The caller cancels ctx.
CancelContext ==
    /\ ~ctxDone
    /\ ctxDone' = TRUE
    /\ eventsAtCancel' = [t \in Tasks |-> Len(events[t])]
    /\ UNCHANGED <<cfg, urls, env, statResults, totalDuration, statistics,
                   semaphoreCap, startCfg, handlerVars, requests, clientVars, serverVars,
                   checkerVars, batchVars, taskVars, rateVars>>

NextCancel ==
    \/ Next
    \/ CancelContext

SpecCancel == InitRetry /\ [][NextCancel]_vars

\* The sleeps among the first i events of task t.
SleepsUpTo(t, i) == Cardinality({j \in 1 .. i : events[t][j].ev = "sleep"})

\* C28: once the caller's context is cancelled no HTTP call of the task
\* completes with a reply (a call in flight or issued later returns an
\* error), but the retry loop itself does not look at the context: every
\* backoff sleep, also one in progress at the cancellation or started after
\* it, lasts its full 1, 2, 4, ... seconds, and the loop ends only on a
\* success, on a kind that is not retried or when the retries are used up.
C28_CancelAbortsRequestNotBackoff ==
    \A t \in Tasks :
        /\ ctxDone =>
              \A i \in 1 .. Len(events[t]) :
                  (i > eventsAtCancel[t] /\ events[t][i].ev = "attempt") =>
                      (~events[t][i].ok /\ events[t][i].err # "http_error")
        /\ \A i \in 1 .. Len(events[t]) :
              events[t][i].ev = "sleep" =>
                  events[t][i].d = InitialBackoff * 2 ^ (SleepsUpTo(t, i) - 1)
        /\ t \in Returned =>
              \/ result[t][1].Success
              \/ result[t][1].Error \in NeverRetriedKinds
              \/ AttemptsOf(t) = cfg.Retries + 1

\* C28 witness: the context was cancelled while the task slept after its
\* first attempt; the sleep lasted its full second, the next request failed,
\* and a full sleep of 2 seconds and another failed request followed.
C28_Witness ==
    \E t \in Tasks :
        /\ ctxDone
        /\ eventsAtCancel[t] = 1
        /\ Len(events[t]) >= 5
        /\ events[t][2] = SleepEvent(InitialBackoff)
        /\ events[t][3].err = "request_failed"
        /\ events[t][4] = SleepEvent(2 * InitialBackoff)
        /\ events[t][5].err \in {"request_failed", "timeout"}

(***************************************************************************)
(* SpecRedirect: one call of httpClient.Do against servers that answer     *)
(* chain[1].hops redirects and then a final reply.  http.Client makes the  *)
(* first request without asking CheckRedirect; for every redirect reply it *)
(* calls CheckRedirect(req, via) with via the requests made already        *)
(* (oldest first) and, on an error, returns that error from Do.            *)
(***************************************************************************)
Chains ==
    [hops : 0 .. MaxHops, status : Statuses,
     rt : {MaxLatencyUnits - 1, MaxLatencyUnits, MaxLatencyUnits + 1}]

InitRedirect ==
    /\ cfg \in Configs(1, 0, 1)
    /\ urls = <<"http://a.example/">>
    /\ env = {}
    /\ InitChecker
    /\ InitBatch
    /\ InitRate0
    /\ InitStats0
    /\ chain \in {<<c>> : c \in Chains}
    /\ via = 0
    /\ doReturn = <<>>
    /\ checked = <<>>

\* CheckRedirect: func(req, via) error { if len(via) >= 3 { return error } return nil }
CheckRedirect(lenVia) == IF lenVia >= RedirectLimit THEN "stopped after 3 redirects" ELSE ""

\* One request of httpClient.Do and what the client does with its reply:
\* it returns a final reply, follows a redirect CheckRedirect allows, or
\* returns CheckRedirect's error.
ClientRoundTrip ==
    /\ chain # <<>>
    /\ doReturn = <<>>
    /\ via' = via + 1
    /\ doReturn' =
          IF via < chain[1].hops
          THEN IF CheckRedirect(via + 1) # ""
               THEN <<[err |-> TRUE, status |-> 0]>>
               ELSE <<>>
          ELSE <<[err |-> FALSE, status |-> chain[1].status]>>
    /\ UNCHANGED <<cfg, urls, env, statResults, totalDuration, statistics,
                   semaphoreCap, startCfg, handlerVars, requests, ctxVars, chain, checked,
                   serverVars, checkerVars, batchVars, taskVars, rateVars>>

\* CheckURL from the return of httpClient.Do to its own return.
CheckURLAfterDo ==
    /\ doReturn # <<>>
    /\ checked = <<>>
    /\ checked' = <<Classify(urls[1],
                             Outcome(0, FALSE, doReturn[1].err, doReturn[1].status,
                                     chain[1].rt),
                             cfg.MaxLatency)>>
    /\ UNCHANGED <<cfg, urls, env, statResults, totalDuration, statistics,
                   semaphoreCap, startCfg, handlerVars, requests, ctxVars, chain, via,
                   doReturn, serverVars, checkerVars, batchVars, taskVars,
                   rateVars>>

NextRedirect ==
    \/ ClientRoundTrip
    \/ CheckURLAfterDo

SpecRedirect == InitRedirect /\ [][NextRedirect]_vars

\* The redirects httpClient.Do has followed: its requests after the first.
RedirectsFollowed == IF via = 0 THEN 0 ELSE via - 1

\* C29 as stated: an attempt follows up to 3 redirects, so a chain of at
\* most 3 redirects is followed to its final reply, whose status is
\* classified, and a longer chain ends the attempt in the transport-error
\* branch (request_failed or timeout, status code 0).
\* Violated: CheckRedirect refuses the third redirect.
C29_FollowsUpToThreeRedirects ==
    checked # <<>> =>
        /\ RedirectsFollowed <= 3
        /\ chain[1].hops <= 3 =>
              /\ ~doReturn[1].err
              /\ RedirectsFollowed = chain[1].hops
              /\ checked[1].StatusCode = chain[1].status
        /\ chain[1].hops > 3 =>
              /\ doReturn[1].err
              /\ checked[1].Error \in {"request_failed", "timeout"}
              /\ checked[1].StatusCode = 0

\* What the client does: it follows 2 redirects at most; a chain of 3 or
\* more redirects ends the attempt in the transport-error branch after 3
\* requests.
FollowsUpToTwoRedirects ==
    checked # <<>> =>
        /\ RedirectsFollowed <= RedirectLimit - 1
        /\ chain[1].hops < RedirectLimit =>
              /\ ~doReturn[1].err
              /\ RedirectsFollowed = chain[1].hops
              /\ checked[1].StatusCode = chain[1].status
        /\ chain[1].hops >= RedirectLimit =>
              /\ doReturn[1].err
              /\ via = RedirectLimit
              /\ checked[1].Error \in {"request_failed", "timeout"}
              /\ checked[1].StatusCode = 0
              /\ ~checked[1].Success

C31_CountBetweenZeroAndLimit ==
    Limit >= 0 => (limiters[1].count >= 0 /\ limiters[1].count <= Limit)

\* C31 witness: after a reset the counter of a limiter with limit MaxLimit
\* is full again while another caller is about to call allow().
C31_Witness ==
    /\ Limit = MaxLimit
    /\ limiters[1].count = MaxLimit
    /\ resets >= 1
    /\ \E c \in DOMAIN cpc : cpc[c] = "poll"

(***************************************************************************)
(* SpecAnyRetries: a batch of one URL run by a Checker whose configuration *)
(* may hold any integer in Retries, a negative one included (the field is  *)
(* a plain int and NewChecker does not validate it).                       *)
(***************************************************************************)
InitAnyRetries ==
    /\ cfg \in [Concurrency : {1}, Retries : -1 .. MaxRetries,
                MaxLatency : {MaxLatencyUnits}, DomainRate : {1}, GlobalRate : {1}]
    /\ urls \in URLLists(1)
    /\ env = BatchOutcomes(cfg.MaxLatency)
    /\ InitChecker
    /\ InitBatch
    /\ InitClient0
    /\ InitRate0
    /\ InitStats0

SpecAnyRetries == InitAnyRetries /\ [][Next]_vars

\* C32: whatever config.Retries is, CheckURLWithRetry makes at least one
\* attempt and returns a non-nil result, and no nil is sent on resultChan.
\* Violated for a negative Retries: the loop condition attempt <= Retries is
\* false at attempt 0, and the nil result is returned and sent.
C32_AtLeastOneAttemptNonNilResult ==
    /\ \A t \in Returned : AttemptsOf(t) >= 1 /\ result[t] # <<>>
    /\ \A i \in 1 .. Len(EmittedResults) : EmittedResults[i] # <<>>

\* For Retries >= 0 the same holds.
AtLeastOneAttemptWhenRetriesNotNegative ==
    cfg.Retries >= 0 => C32_AtLeastOneAttemptNonNilResult

(***************************************************************************)
(* SpecLive: the batch of Spec under fair scheduling.  Every goroutine     *)
(* that stays able to take a step eventually takes it (the Go scheduler),  *)
(* every HTTP attempt returns, and every limiter's ticker keeps ticking.   *)
(* Nothing is assumed about the handler: it may never read a result.       *)
(***************************************************************************)
MaxLimiters == 1 + MaxURLs

FairResetCounter(i) == i <= Len(limiters) /\ ResetCounter(i)

TaskStep(t) ==
    \/ Acquire(t)
    \/ Backoff(t)
    \/ CheckURLParse(t)
    \/ WaitGlobal(t)
    \/ GetDomainRateLimiter(t)
    \/ WaitDomain(t)
    \/ DoRequest(t)
    \/ SendResult(t)
    \/ LockCompleted(t)
    \/ SendProgress(t)
    \/ Release(t)
    \/ WgDone(t)

\* The batches of Spec whose URLs name their host without a port.
InitLive == Init /\ \A i \in DOMAIN urls : Parse(urls[i]).port = ""

SpecLive ==
    /\ InitLive
    /\ [][Next]_vars
    /\ WF_vars(Spawn)
    /\ WF_vars(Wait)
    /\ WF_vars(CloseResult)
    /\ WF_vars(CloseProgress)
    /\ \A t \in 1 .. MaxURLs : WF_vars(t \in Tasks /\ TaskStep(t))
    /\ \A i \in 1 .. MaxLimiters : WF_vars(FairResetCounter(i))

\* C33: with Concurrency >= 1, limits >= 1 and channels of capacity N,
\* CheckURLs eventually closes resultChan and progressChan, each once and
\* without a send on a closed channel, also when the handler reads nothing
\* before the close.
C33_EventuallyClosesBothChannels ==
    /\ [](~panicked /\ resultClosed <= 1 /\ progressClosed <= 1)
    /\ <>[](pcMain = "done" /\ resultClosed = 1 /\ progressClosed = 1)

\* C33 witness: both channels are closed and the handler has not read any
\* of the MaxURLs results.
C33_Witness ==
    /\ pcMain = "done"
    /\ resultClosed = 1
    /\ progressClosed = 1
    /\ results = <<>>
    /\ Len(urls) = MaxURLs
    /\ Len(resultChan) = MaxURLs
    /\ Len(progressChan) = MaxURLs

(***************************************************************************)
(* Progress values against results (Spec).                                 *)
(***************************************************************************)
\* C34: at every moment every value already sent on progressChan is at
\* most the number of results already sent on resultChan (read by the
\* handler or not), and so is the completed counter: a task sends its
\* progress value only after its own result.
C34_ProgressNeverAheadOfResults ==
    /\ \A i \in 1 .. Len(progressChan) : progressChan[i] <= Len(EmittedResults)
    /\ completed <= Len(EmittedResults)
    /\ \A t \in Tasks : pc[t] \in {"progress", "release", "wgdone", "done"} =>
          \E i \in 1 .. Len(EmittedResults) : EmittedResults[i] = result[t]

\* C34 witness: two results have been sent and only the progress value 1:
\* the second task has sent its result and not yet its progress.
C34_Witness ==
    /\ Len(EmittedResults) = 2
    /\ progressChan = <<1>>
    /\ \E t \in Tasks : pc[t] \in {"lock", "progress"}

(***************************************************************************)
(* The counts and the duration of CalculateStatistics (SpecStats).         *)
(***************************************************************************)
\* C35: for a non-empty result set CalculateStatistics returns
\* TotalRequests = len(results), SuccessCount = the number of results with
\* Success true, and SuccessCount + FailureCount = TotalRequests.
C35_CountsPartitionTheResults ==
    (statistics # <<>> /\ Len(statResults) > 0) =>
        /\ statistics[1].TotalRequests = Len(statResults)
        /\ statistics[1].SuccessCount = Cardinality(SuccessfulAt)
        /\ statistics[1].SuccessCount + statistics[1].FailureCount
              = statistics[1].TotalRequests

\* C35 witness: statistics of MaxResults results, some successful and some
\* failed.
C35_Witness ==
    /\ statistics # <<>>
    /\ Len(statResults) = MaxResults
    /\ statistics[1].SuccessCount > 0
    /\ statistics[1].FailureCount > 0

\* C36: the Statistics returned carries the totalDuration argument in
\* TotalDuration for every result set, the empty one included.
\* Violated for the empty set, which returns &Statistics{}.
C36_TotalDurationIsTheArgument ==
    statistics # <<>> => statistics[1].TotalDuration = totalDuration

\* For a non-empty result set TotalDuration is the argument.
TotalDurationIsTheArgumentUnlessEmpty ==
    (statistics # <<>> /\ Len(statResults) > 0) =>
        statistics[1].TotalDuration = totalDuration

(***************************************************************************)
(* SpecConfig: the configuration the handlers write.  net/http runs        *)
(* handleCheck and handleAPICheck in the goroutine of the connection a     *)
(* request arrives on; both write the fields of the one *config.Config     *)
(* the Server holds, one statement at a time and without a lock.  cfg      *)
(* keeps the fields no handler writes.                                     *)
(***************************************************************************)
\* The least number of seconds whose product with time.Second is beyond the
\* largest Duration, and the least whose product wraps to 0.
WrapSeconds == (2 ^ (DurationBits - 1)) \div Second + 1
ZeroSeconds == 2 ^ (DurationBits - 3)

\* What fmt.Sscanf(value, "%d", &v) can leave in v; 0 is also what v holds
\* when the value is not a number.
SubmittedInts == {-1, 0, 1, 2}
SubmittedTimeouts == SubmittedInts \cup {WrapSeconds, ZeroSeconds}

InitConfig ==
    /\ cfg \in Configs(1, 0, 1)
    /\ urls = <<"http://a.example/">>
    /\ env = {}
    /\ InitChecker
    /\ InitBatch
    /\ InitClient0
    /\ InitRate0
    /\ InitStats0

\* What no handler writes before it starts its batch.
batchState == <<cfg, urls, env, statResults, totalDuration, statistics,
                semaphoreCap, startCfg, requests, ctxVars, clientVars,
                checkerVars, batchVars, taskVars, rateVars>>

\* A request that is not a POST or carries no URL: 405 or 400.
HandlerRejects(h) ==
    /\ hpc[h] = "idle"
    /\ lastRequest' = "rejected"
    /\ UNCHANGED <<batchState, handlerVars, sChecker, otherGrants>>

\* A POST with at least one URL reaches the update of the configuration.
HandlerBegin(h) ==
    /\ hpc[h] = "idle"
    /\ hpc' = [hpc EXCEPT ![h] = "concurrency"]
    /\ overlapped' = (overlapped \/ \E g \in Handlers : g # h /\ hpc[g] # "idle")
    /\ UNCHANGED <<batchState, serverVars, config, parsed, loaded, wrapped>>

\* if c > 0 { s.config.Concurrency = c }
SetConcurrency(h) ==
    /\ hpc[h] = "concurrency"
    /\ \E c \in SubmittedInts :
        /\ parsed' = c
        /\ config' = IF c > 0 THEN [config EXCEPT !.Concurrency = c] ELSE config
    /\ hpc' = [hpc EXCEPT ![h] = "timeout"]
    /\ UNCHANGED <<batchState, serverVars, loaded, overlapped, wrapped>>

\* if t > 0 { s.config.Timeout = time.Duration(t) * time.Second
SetTimeout(h) ==
    /\ hpc[h] = "timeout"
    /\ \E t \in SubmittedTimeouts :
        /\ parsed' = t
        /\ IF t > 0
           THEN /\ config' = [config EXCEPT !.Timeout = Wrap(t * Second)]
                /\ wrapped' = (wrapped \/ Wrap(t * Second) # t * Second)
                /\ hpc' = [hpc EXCEPT ![h] = "maxLatency"]
           ELSE /\ UNCHANGED <<config, wrapped>>
                /\ hpc' = [hpc EXCEPT ![h] = "retries"]
    /\ UNCHANGED <<batchState, serverVars, loaded, overlapped>>

\* s.config.MaxLatency = s.config.Timeout }: the read of s.config.Timeout
LoadTimeout(h) ==
    /\ hpc[h] = "maxLatency"
    /\ loaded' = [loaded EXCEPT ![h] = config.Timeout]
    /\ hpc' = [hpc EXCEPT ![h] = "storeMaxLatency"]
    /\ UNCHANGED <<batchState, serverVars, config, parsed, overlapped, wrapped>>

\* s.config.MaxLatency = s.config.Timeout }: the write of s.config.MaxLatency
SetMaxLatency(h) ==
    /\ hpc[h] = "storeMaxLatency"
    /\ config' = [config EXCEPT !.MaxLatency = loaded[h]]
    /\ loaded' = [loaded EXCEPT ![h] = 0]
    /\ hpc' = [hpc EXCEPT ![h] = "retries"]
    /\ UNCHANGED <<batchState, serverVars, parsed, overlapped, wrapped>>

\* if r >= 0 { s.config.Retries = r }
SetRetries(h) ==
    /\ hpc[h] = "retries"
    /\ \E r \in SubmittedInts :
        /\ parsed' = r
        /\ config' = IF r >= 0 THEN [config EXCEPT !.Retries = r] ELSE config
    /\ hpc' = [hpc EXCEPT ![h] = "newChecker"]
    /\ UNCHANGED <<batchState, serverVars, loaded, overlapped, wrapped>>

\* s.checker = checker.NewChecker(s.config); the handler then starts its
\* batch and writes s.config no more.
ReplaceChecker(h) ==
    /\ hpc[h] = "newChecker"
    /\ sChecker' = <<NewChecker(cfg)>>
    /\ otherGrants' = 0
    /\ lastRequest' = "accepted"
    /\ hpc' = [hpc EXCEPT ![h] = "idle"]
    /\ UNCHANGED <<batchState, config, parsed, loaded, overlapped, wrapped>>

NextConfig ==
    \E h \in Handlers :
        \/ HandlerRejects(h)
        \/ HandlerBegin(h)
        \/ SetConcurrency(h)
        \/ SetTimeout(h)
        \/ LoadTimeout(h)
        \/ SetMaxLatency(h)
        \/ SetRetries(h)
        \/ ReplaceChecker(h)

SpecConfig == InitConfig /\ [][NextConfig]_vars

\* No handler is between the start and the end of its update.
Quiescent == \A h \in Handlers : hpc[h] \in {"idle", "newChecker"}

ConfigInvariant ==
    /\ config.Concurrency >= 1
    /\ config.Retries >= 0
    /\ config.Timeout > 0
    /\ config.MaxLatency = config.Timeout

\* A handler's step over a field whose submitted value does not pass the
\* handler's test leaves the field as it was.
RefusedValueLeavesField ==
    \A h \in Handlers :
        /\ (hpc[h] = "concurrency" /\ hpc'[h] # "concurrency" /\ parsed' <= 0) =>
              config'.Concurrency = config.Concurrency
        /\ (hpc[h] = "timeout" /\ hpc'[h] # "timeout" /\ parsed' <= 0) =>
              /\ config'.Timeout = config.Timeout
              /\ config'.MaxLatency = config.MaxLatency
              /\ hpc'[h] = "retries"
        /\ (hpc[h] = "retries" /\ hpc'[h] # "retries" /\ parsed' < 0) =>
              config'.Retries = config.Retries

\* C37 as stated: after any sequence of /check and /api/check requests
\* starting from DefaultConfig the shared config has Concurrency >= 1,
\* Retries >= 0, Timeout > 0 and MaxLatency = Timeout, and a submitted
\* concurrency or timeout that is <= 0, or a submitted retries that is
\* negative, leaves its field unchanged.
\* Violated: a submitted timeout of WrapSeconds seconds or more can leave a
\* Timeout that is negative or 0, and two requests handled at the same time
\* can leave MaxLatency different from Timeout.
C37_ConfigInvariantAfterRequests ==
    /\ [](Quiescent => ConfigInvariant)
    /\ [][RefusedValueLeavesField]_vars

\* What the handlers keep: Concurrency >= 1 and Retries >= 0 in every
\* state, refused values change nothing, MaxLatency = Timeout after
\* requests handled one after the other, and Timeout > 0 as long as no
\* product has wrapped.
ConfigInvariantWithoutWrapOrOverlap ==
    /\ [](config.Concurrency >= 1 /\ config.Retries >= 0)
    /\ []((Quiescent /\ ~overlapped) => config.MaxLatency = config.Timeout)
    /\ [](~wrapped => config.Timeout > 0)
    /\ []((Quiescent /\ ~overlapped /\ ~wrapped) => ConfigInvariant)
    /\ [][RefusedValueLeavesField]_vars

=============================================================================
